---- MODULE Spec2Model ----
(***************************************************************************)
(* Binary calculator (r488it/agent_dev).                                   *)
(*                                                                         *)
(* CalculatorEngine (src/binary-calculator/js/calculator.js) is modelled   *)
(* as one record-valued variable `calc` holding the fields of the object;  *)
(* every public method is an operator from the object before the call to   *)
(* the object after it, and one action applies it.                         *)
(*                                                                         *)
(* Binary strings are sequences of the one-character strings "0" and "1".  *)
(* JavaScript's null is NULL (for the string-valued field previousValue)   *)
(* and "null" (for operator and errorMessage).                             *)
(*                                                                         *)
(* Word width.  The program works on MAX_BITS = 32 binary digits and       *)
(* MAX_VALUE = 2^32 - 1.  TLC's integers are 32-bit signed, so 2^32 - 1    *)
(* and the products the program compares against it cannot be computed;    *)
(* the model keeps the program's structure, MAX_VALUE = 2^MAX_BITS - 1,    *)
(* and runs it at the word width Width.  The program computes in IEEE      *)
(* doubles: sums, differences and quotients of values below 2^32 are       *)
(* exact, and a product is either exact or far above MAX_VALUE, so integer *)
(* arithmetic gives the same comparisons and the same results.             *)
(***************************************************************************)
EXTENDS Integers, Sequences, FiniteSets, TLC

\* ---------------------------------------------------------------- bounds
\* Word width the model is run at (stands for the program's 32).
Width == 3
\* Number of method calls made on the calculator after its construction.
MaxSteps == 8

\* ------------------------------------------------------------- constants
INPUT == "INPUT"
OPERATOR == "OPERATOR"
RESULT == "RESULT"
ERROR == "ERROR"

INVALID_INPUT == "INVALID_INPUT"
DIVISION_BY_ZERO == "DIVISION_BY_ZERO"
NEGATIVE_RESULT == "NEGATIVE_RESULT"
OVERFLOW == "OVERFLOW"

MAX_BITS == Width
MAX_VALUE == 2^MAX_BITS - 1
MIN_VALUE == 0
DEFAULT_VALUE == <<"0">>
HISTORY_LIMIT == 100

NULL == <<"null">>

\* Error messages (the program's texts are Japanese; these are their
\* translations, one constant per distinct text).
MSG_INVALID_DIGIT == "error: binary digits are 0 and 1 only"
MSG_INVALID_OPERATOR == "error: invalid operator"
MSG_INPUT_OVERFLOW == "error: input value too large (32-bit limit)"
MSG_RESULT_OVERFLOW == "error: result too large (32-bit limit)"
MSG_NEGATIVE == "error: negative numbers are not supported"
MSG_DIV_ZERO == "error: cannot divide by zero"

\* --------------------------------------------------- JavaScript built-ins
\* Value of one binary digit character.
digitValue(c) == IF c = "1" THEN 1 ELSE 0

\* parseInt(s, 2) on a non-empty string of binary digits.
RECURSIVE parseInt2(_)
parseInt2(s) ==
    IF Len(s) = 0 THEN 0
    ELSE 2 * parseInt2(SubSeq(s, 1, Len(s) - 1)) + digitValue(s[Len(s)])

\* n.toString(2) for an integer n >= 0.
RECURSIVE toString2(_)
toString2(n) ==
    IF n < 2 THEN << IF n = 1 THEN "1" ELSE "0" >>
    ELSE toString2(n \div 2) \o << IF n % 2 = 1 THEN "1" ELSE "0" >>

\* Mutant of sliceLast: nothing is removed.
sliceLast_removingNothing(s) == s

\* s.slice(0, -1)
sliceLast(s) == IF Len(s) = 0 THEN << >> ELSE SubSeq(s, 1, Len(s) - 1)

\* ------------------------------------------------------- CalculatorEngine
validateBinaryDigit(digit) == digit = "0" \/ digit = "1"

validateBinaryLength(binary) ==
    IF Len(binary) > MAX_BITS THEN FALSE
    ELSE parseInt2(binary) <= MAX_VALUE

\* Mutant of validateOperator: every key is taken for an operator.
validateOperator_acceptingAll(operator) == operator = operator

validateOperator(operator) == operator \in {"+", "-", "*", "/"}

\* Mutant of reset: the error message is not cleared.
reset_keepingMessage(e) ==
    [e EXCEPT !.state = INPUT,
              !.currentValue = DEFAULT_VALUE,
              !.previousValue = NULL,
              !.operator = "null",
              !.isNewInput = TRUE,
              !.history = << >>]

reset(e) ==
    [e EXCEPT !.state = INPUT,
              !.currentValue = DEFAULT_VALUE,
              !.previousValue = NULL,
              !.operator = "null",
              !.errorMessage = "null",
              !.isNewInput = TRUE,
              !.history = << >>]

getDecimalValue(e) ==
    IF e.currentValue = << >> THEN 0 ELSE parseInt2(e.currentValue)

getState(e) ==
    [state |-> e.state,
     currentValue |-> e.currentValue,
     previousValue |-> e.previousValue,
     operator |-> e.operator,
     errorMessage |-> e.errorMessage,
     isNewInput |-> e.isNewInput,
     decimalValue |-> getDecimalValue(e),
     hasError |-> (e.state = ERROR)]

\* Mutant of setError: the message is stored but the phase is left alone.
setError_keepingPhase(e, errorType, message) ==
    [e EXCEPT !.errorMessage = message]

\* Mutant of setError: reporting an error also drops the pending operation.
setError_droppingPending(e, errorType, message) ==
    [e EXCEPT !.state = ERROR, !.errorMessage = message,
              !.previousValue = NULL, !.operator = "null"]

\* Mutant of setError: ERROR is entered without a message.
setError_withoutMessage(e, errorType, message) ==
    [e EXCEPT !.state = ERROR]

\* setError stores the message and enters ERROR; errorType is not stored.
setError(e, errorType, message) ==
    [e EXCEPT !.state = ERROR, !.errorMessage = message]

\* Mutant of addToHistory: past the limit the newest record is dropped
\* instead of the oldest.
addToHistory_evictingNewest(e, calculation) ==
    LET pushed == Append(e.history, calculation)
    IN [e EXCEPT !.history =
            IF Len(pushed) > HISTORY_LIMIT
            THEN SubSeq(pushed, 1, HISTORY_LIMIT) ELSE pushed]

addToHistory(e, calculation) ==
    LET pushed == Append(e.history, calculation)
    IN [e EXCEPT !.history =
            IF Len(pushed) > HISTORY_LIMIT THEN Tail(pushed) ELSE pushed]

\* Mutant of add: a sum equal to MAX_VALUE is already rejected.
add_limitInclusive(num1, num2) ==
    LET result == num1 + num2
    IN IF result >= MAX_VALUE
       THEN [error |-> TRUE, errorType |-> OVERFLOW,
             message |-> MSG_RESULT_OVERFLOW, value |-> 0]
       ELSE [error |-> FALSE, errorType |-> "null",
             message |-> "null", value |-> result]

add(num1, num2) ==
    LET result == num1 + num2
    IN IF result > MAX_VALUE
       THEN [error |-> TRUE, errorType |-> OVERFLOW,
             message |-> MSG_RESULT_OVERFLOW, value |-> 0]
       ELSE [error |-> FALSE, errorType |-> "null",
             message |-> "null", value |-> result]

subtract(num1, num2) ==
    LET result == num1 - num2
    IN IF result < MIN_VALUE
       THEN [error |-> TRUE, errorType |-> NEGATIVE_RESULT,
             message |-> MSG_NEGATIVE, value |-> 0]
       ELSE [error |-> FALSE, errorType |-> "null",
             message |-> "null", value |-> result]

multiply(num1, num2) ==
    LET result == num1 * num2
    IN IF result > MAX_VALUE
       THEN [error |-> TRUE, errorType |-> OVERFLOW,
             message |-> MSG_RESULT_OVERFLOW, value |-> 0]
       ELSE [error |-> FALSE, errorType |-> "null",
             message |-> "null", value |-> result]

\* Mutant of divide: the quotient is rounded up instead of down.
divide_roundingUp(num1, num2) ==
    IF num2 = 0
    THEN [error |-> TRUE, errorType |-> DIVISION_BY_ZERO,
          message |-> MSG_DIV_ZERO, value |-> 0]
    ELSE [error |-> FALSE, errorType |-> "null",
          message |-> "null", value |-> (num1 + num2 - 1) \div num2]

divide(num1, num2) ==
    IF num2 = 0
    THEN [error |-> TRUE, errorType |-> DIVISION_BY_ZERO,
          message |-> MSG_DIV_ZERO, value |-> 0]
    ELSE [error |-> FALSE, errorType |-> "null",
          message |-> "null", value |-> num1 \div num2]

\* Mutant of calculationRecord: the operands are written in the wrong order.
calculationRecord_swapped(previousValue, operator, currentValue, resultBinary) ==
    currentValue \o <<" ", operator, " ">> \o previousValue
        \o <<" ", "=", " ">> \o resultBinary

\* The record `${previousValue} ${operator} ${currentValue} = ${result}`.
calculationRecord(previousValue, operator, currentValue, resultBinary) ==
    previousValue \o <<" ", operator, " ">> \o currentValue
        \o <<" ", "=", " ">> \o resultBinary

\* Mutant of calculate: called in ERROR it resets the calculator instead of
\* leaving it alone.
calculate_resettingInError(e) ==
    IF e.state = ERROR
    THEN reset(e)
    ELSE IF e.operator = "null" \/ e.previousValue = NULL
    THEN e
    ELSE
        LET num1 == parseInt2(e.previousValue)
            num2 == parseInt2(e.currentValue)
            result == CASE e.operator = "+" -> add(num1, num2)
                        [] e.operator = "-" -> subtract(num1, num2)
                        [] e.operator = "*" -> multiply(num1, num2)
                        [] e.operator = "/" -> divide(num1, num2)
        IN IF result.error
           THEN setError(e, result.errorType, result.message)
           ELSE LET calculation ==
                        calculationRecord(e.previousValue, e.operator,
                                          e.currentValue,
                                          toString2(result.value))
                    e1 == addToHistory(e, calculation)
                IN [e1 EXCEPT !.currentValue = toString2(result.value),
                              !.operator = "null",
                              !.previousValue = NULL,
                              !.state = RESULT,
                              !.isNewInput = TRUE]

\* Mutant of calculate: called before a second operand is typed it does
\* nothing.
calculate_ignoringFresh(e) ==
    IF e.state = ERROR \/ e.operator = "null" \/ e.previousValue = NULL
       \/ e.isNewInput
    THEN e
    ELSE
        LET num1 == parseInt2(e.previousValue)
            num2 == parseInt2(e.currentValue)
            result == CASE e.operator = "+" -> add(num1, num2)
                        [] e.operator = "-" -> subtract(num1, num2)
                        [] e.operator = "*" -> multiply(num1, num2)
                        [] e.operator = "/" -> divide(num1, num2)
        IN IF result.error
           THEN setError(e, result.errorType, result.message)
           ELSE LET calculation ==
                        calculationRecord(e.previousValue, e.operator,
                                          e.currentValue,
                                          toString2(result.value))
                    e1 == addToHistory(e, calculation)
                IN [e1 EXCEPT !.currentValue = toString2(result.value),
                              !.operator = "null",
                              !.previousValue = NULL,
                              !.state = RESULT,
                              !.isNewInput = TRUE]

\* Nothing inside the try block throws (the operands are strings of binary
\* digits and result.value is a number), so the catch handler is not
\* modelled.
calculate(e) ==
    IF e.state = ERROR \/ e.operator = "null" \/ e.previousValue = NULL
    THEN e
    ELSE IF e.operator \notin {"+", "-", "*", "/"}
    THEN setError(e, INVALID_INPUT, MSG_INVALID_OPERATOR)
    ELSE
        LET num1 == parseInt2(e.previousValue)
            num2 == parseInt2(e.currentValue)
            result == CASE e.operator = "+" -> add(num1, num2)
                        [] e.operator = "-" -> subtract(num1, num2)
                        [] e.operator = "*" -> multiply(num1, num2)
                        [] e.operator = "/" -> divide(num1, num2)
        IN IF result.error
           THEN setError(e, result.errorType, result.message)
           ELSE LET calculation ==
                        calculationRecord(e.previousValue, e.operator,
                                          e.currentValue,
                                          toString2(result.value))
                    e1 == addToHistory(e, calculation)
                IN [e1 EXCEPT !.currentValue = toString2(result.value),
                              !.operator = "null",
                              !.previousValue = NULL,
                              !.state = RESULT,
                              !.isNewInput = TRUE]

\* Mutant of inputDigit: a lone "0" is not stripped before the digit is
\* appended.
inputDigit_keepingLeadingZero(e, digit) ==
    LET e1 == IF e.state = ERROR THEN reset(e) ELSE e
    IN IF ~validateBinaryDigit(digit)
       THEN setError(e1, INVALID_INPUT, MSG_INVALID_DIGIT)
       ELSE
        LET e2 == IF e1.isNewInput
                  THEN [e1 EXCEPT !.currentValue = << >>,
                                  !.isNewInput = FALSE,
                                  !.state = INPUT]
                  ELSE e1
            e4 == [e2 EXCEPT !.currentValue = @ \o <<digit>>]
        IN IF ~validateBinaryLength(e4.currentValue)
           THEN LET e6 == [e4 EXCEPT !.currentValue = sliceLast(@)]
                    e7 == IF e6.currentValue = << >>
                          THEN [e6 EXCEPT !.currentValue = <<"0">>]
                          ELSE e6
                IN setError(e7, OVERFLOW, MSG_INPUT_OVERFLOW)
           ELSE e4

inputDigit(e, digit) ==
    LET e1 == IF e.state = ERROR THEN reset(e) ELSE e
    IN IF ~validateBinaryDigit(digit)
       THEN setError(e1, INVALID_INPUT, MSG_INVALID_DIGIT)
       ELSE
        LET e2 == IF e1.isNewInput
                  THEN [e1 EXCEPT !.currentValue = << >>,
                                  !.isNewInput = FALSE,
                                  !.state = INPUT]
                  ELSE e1
            e3 == IF e2.currentValue = <<"0">>
                  THEN [e2 EXCEPT !.currentValue = << >>]
                  ELSE e2
            e4 == [e3 EXCEPT !.currentValue = @ \o <<digit>>]
            e5 == IF e4.currentValue = << >>
                  THEN [e4 EXCEPT !.currentValue = <<"0">>]
                  ELSE e4
        IN IF ~validateBinaryLength(e5.currentValue)
           THEN LET e6 == [e5 EXCEPT !.currentValue = sliceLast(@)]
                    e7 == IF e6.currentValue = << >>
                          THEN [e6 EXCEPT !.currentValue = <<"0">>]
                          ELSE e6
                IN setError(e7, OVERFLOW, MSG_INPUT_OVERFLOW)
           ELSE e5

\* Mutant of inputOperator: the next digit is not marked as starting a new
\* number.
inputOperator_keepingInput(e, operator) ==
    IF e.state = ERROR THEN e
    ELSE IF ~validateOperator(operator)
    THEN setError(e, INVALID_INPUT, MSG_INVALID_OPERATOR)
    ELSE
        LET chained == e.operator # "null" /\ ~e.isNewInput
            e1 == IF chained THEN calculate(e) ELSE e
        IN IF chained /\ getState(e1).hasError
           THEN e1
           ELSE [e1 EXCEPT !.previousValue = e1.currentValue,
                           !.operator = operator,
                           !.state = OPERATOR]

\* Mutant of inputOperator: the new operator is stored even when the
\* pending calculation has failed.
inputOperator_ignoringFailure(e, operator) ==
    IF e.state = ERROR THEN e
    ELSE IF ~validateOperator(operator)
    THEN setError(e, INVALID_INPUT, MSG_INVALID_OPERATOR)
    ELSE
        LET chained == e.operator # "null" /\ ~e.isNewInput
            e1 == IF chained THEN calculate(e) ELSE e
        IN [e1 EXCEPT !.previousValue = e1.currentValue,
                      !.operator = operator,
                      !.state = OPERATOR,
                      !.isNewInput = TRUE]

\* Mutant of inputOperator: a pending operation is calculated even when no
\* second operand has been typed.
inputOperator_calculatingFresh(e, operator) ==
    IF e.state = ERROR THEN e
    ELSE IF ~validateOperator(operator)
    THEN setError(e, INVALID_INPUT, MSG_INVALID_OPERATOR)
    ELSE
        LET chained == e.operator # "null"
            e1 == IF chained THEN calculate(e) ELSE e
        IN IF chained /\ getState(e1).hasError
           THEN e1
           ELSE [e1 EXCEPT !.previousValue = e1.currentValue,
                           !.operator = operator,
                           !.state = OPERATOR,
                           !.isNewInput = TRUE]

inputOperator(e, operator) ==
    IF e.state = ERROR THEN e
    ELSE IF ~validateOperator(operator)
    THEN setError(e, INVALID_INPUT, MSG_INVALID_OPERATOR)
    ELSE
        LET chained == e.operator # "null" /\ ~e.isNewInput
            e1 == IF chained THEN calculate(e) ELSE e
        IN IF chained /\ getState(e1).hasError
           THEN e1
           ELSE [e1 EXCEPT !.previousValue = e1.currentValue,
                           !.operator = operator,
                           !.state = OPERATOR,
                           !.isNewInput = TRUE]

\* Mutant of backspace: in ERROR it deletes a character like anywhere else.
backspace_deletingInError(e) ==
    IF e.isNewInput \/ e.currentValue = <<"0">> THEN e
    ELSE LET e1 == [e EXCEPT !.currentValue = SubSeq(@, 1, Len(@) - 1)]
         IN IF e1.currentValue = << >>
            THEN [e1 EXCEPT !.currentValue = <<"0">>]
            ELSE e1

\* Mutant of backspace: the last character is removed even when the next
\* digit would start a new number.
backspace_ignoringFresh(e) ==
    IF e.state = ERROR THEN reset(e)
    ELSE IF e.currentValue = <<"0">> THEN e
    ELSE LET e1 == [e EXCEPT !.currentValue = sliceLast(@)]
         IN IF e1.currentValue = << >>
            THEN [e1 EXCEPT !.currentValue = <<"0">>]
            ELSE e1

backspace(e) ==
    IF e.state = ERROR THEN reset(e)
    ELSE IF e.isNewInput \/ e.currentValue = <<"0">> THEN e
    ELSE LET e1 == [e EXCEPT !.currentValue = sliceLast(@)]
         IN IF e1.currentValue = << >>
            THEN [e1 EXCEPT !.currentValue = <<"0">>]
            ELSE e1

clear(e) == reset(e)

\* ------------------------------------------------------------ the machine
\* calc   : the CalculatorEngine object
\* lastOp : the method called last, its argument, and the phase it was
\*          called in
\* ret    : the value that call returned
\* steps  : number of calls made so far
\* The arguments getHistory is called with: numbers, and a value that is not
\* one and has no conversion to a number (a Symbol).
LimitInputs ==
    [type : {"number"}, value : {0, 1, 2, 10}]
        \cup {[type |-> "symbol", value |-> 0]}

\* -limit: the unary minus converts its operand to a number and throws a
\* TypeError for a Symbol.
negate(limit) ==
    IF limit.type = "symbol"
    THEN [threw |-> TRUE, value |-> 0]
    ELSE [threw |-> FALSE, value |-> 0 - limit.value]

\* Array.prototype.slice(start): a negative start counts from the end, and
\* the start is clamped to 0 .. length.
slice(a, start) ==
    LET len == Len(a)
        k == IF start < 0
             THEN (IF len + start > 0 THEN len + start ELSE 0)
             ELSE (IF start < len THEN start ELSE len)
    IN SubSeq(a, k + 1, len)

\* Array.prototype.reverse().
reverse(a) == [i \in 1 .. Len(a) |-> a[Len(a) + 1 - i]]

\* getHistory(limit): what the call returns, or that it threw.
getHistory(e, limit) ==
    LET start == negate(limit)
    IN IF start.threw
       THEN [threw |-> TRUE, list |-> << >>]
       ELSE [threw |-> FALSE, list |-> reverse(slice(e.history, start.value))]

\* ---------------------------------------------------- binary-operations.js
\* The width of the integers the operators << >> >>> work on (32), scaled
\* with the word of the calculator.
INT_BITS == Width

\* The number of significant bits of a Number (53), scaled so that it stays
\* between INT_BITS and 2 * INT_BITS.
SIGNIFICAND_BITS == Width + 2

\* Messages of the errors the library throws.
LIB_INVALID_BINARY == "invalid binary string: must contain 0 and 1 only"
LIB_DIVISION_BY_ZERO == "division by zero error: cannot divide by 0"
LIB_INVALID_SHIFT == "shift amount must be a non-negative integer"

\* What a call of a library function does: it returns a value or throws an
\* Error with a message.
returns(value) == [threw |-> FALSE, message |-> "none", value |-> value]
throws(message) == [threw |-> TRUE, message |-> message, value |-> << >>]

\* The number of binary digits of the integer n >= 0.
RECURSIVE bitLength(_)
bitLength(n) == IF n = 0 THEN 0 ELSE 1 + bitLength(n \div 2)

\* n / d rounded to the nearest integer, a tie to the even one (n >= 0,
\* d > 0).
roundHalfEven(n, d) ==
    LET q == n \div d
        r == n % d
    IN IF 2 * r > d \/ (2 * r = d /\ q % 2 = 1) THEN q + 1 ELSE q

\* The Number that stands for the integer x: x itself when it has at most
\* SIGNIFICAND_BITS significant bits, else the nearest such value.
toNumber(x) ==
    LET m == IF x < 0 THEN 0 - x ELSE x
        t == bitLength(m) - SIGNIFICAND_BITS
        r == IF t <= 0 THEN m ELSE roundHalfEven(m, 2^t) * 2^t
    IN IF x < 0 THEN 0 - r ELSE r

\* Math.floor(num1 / num2) for Numbers num1 >= 0 and num2 > 0: the quotient
\* is rounded to SIGNIFICAND_BITS significant bits before the floor.
floorOfQuotient(num1, num2) ==
    LET f == SIGNIFICAND_BITS - bitLength(num1 \div num2)
    IN IF f >= 0
       THEN roundHalfEven(num1 * 2^f, num2) \div 2^f
       ELSE roundHalfEven(num1, num2 * 2^(0 - f)) * 2^(0 - f)

\* Mutant of toUint32: the sign is dropped instead of wrapped.
toUint32_magnitude(x) == IF x < 0 THEN 0 - x ELSE x

\* x >>> 0: the integer x modulo 2^INT_BITS.
toUint32(x) == x % 2^INT_BITS

\* The signed integer << and >> take their left operand for.
toInt32(x) ==
    LET m == x % 2^INT_BITS
    IN IF m >= 2^(INT_BITS - 1) THEN m - 2^INT_BITS ELSE m

\* binary.replace(/^0b/i, '')
stripPrefix(s) ==
    IF Len(s) >= 2 /\ s[1] = "0" /\ s[2] \in {"b", "B"}
    THEN SubSeq(s, 3, Len(s))
    ELSE s

\* s.trim()
RECURSIVE trim(_)
trim(s) ==
    IF s = << >> THEN s
    ELSE IF s[1] = " " THEN trim(Tail(s))
    ELSE IF s[Len(s)] = " " THEN trim(SubSeq(s, 1, Len(s) - 1))
    ELSE s

\* /^[01]+$/.test(s)
isBinaryDigits(s) == Len(s) >= 1 /\ \A i \in 1 .. Len(s) : s[i] \in {"0", "1"}

\* binaryToDecimal(binary) for a string: the prefix is removed before the
\* string is trimmed.
binaryToDecimal(binary) ==
    LET cleaned == trim(stripPrefix(binary))
    IN IF ~isBinaryDigits(cleaned)
       THEN throws(LIB_INVALID_BINARY)
       ELSE returns(toNumber(parseInt2(cleaned)))

\* Mutant of decimalToBinary: the lowest bit is lost.
decimalToBinary_halving(decimal) ==
    IF decimal < 0
    THEN returns(toString2(toUint32(decimal)))
    ELSE returns(toString2(decimal \div 2))

\* decimalToBinary(decimal) for a finite integer Number.
decimalToBinary(decimal) ==
    IF decimal < 0
    THEN returns(toString2(toUint32(decimal)))
    ELSE returns(toString2(decimal))

\* The functions of two operands decode both, the first failure is thrown
\* on, and the result is encoded.
addition(binary1, binary2) ==
    LET num1 == binaryToDecimal(binary1)
        num2 == binaryToDecimal(binary2)
    IN IF num1.threw THEN num1
       ELSE IF num2.threw THEN num2
       ELSE decimalToBinary(toNumber(num1.value + num2.value))

\* Mutant of subtraction: the operands are taken in the wrong order.
subtraction_swapped(binary1, binary2) ==
    LET num1 == binaryToDecimal(binary1)
        num2 == binaryToDecimal(binary2)
    IN IF num1.threw THEN num1
       ELSE IF num2.threw THEN num2
       ELSE decimalToBinary(toNumber(num2.value - num1.value))

subtraction(binary1, binary2) ==
    LET num1 == binaryToDecimal(binary1)
        num2 == binaryToDecimal(binary2)
    IN IF num1.threw THEN num1
       ELSE IF num2.threw THEN num2
       ELSE decimalToBinary(toNumber(num1.value - num2.value))

multiplication(binary1, binary2) ==
    LET num1 == binaryToDecimal(binary1)
        num2 == binaryToDecimal(binary2)
    IN IF num1.threw THEN num1
       ELSE IF num2.threw THEN num2
       ELSE decimalToBinary(toNumber(num1.value * num2.value))

division(binary1, binary2) ==
    LET num1 == binaryToDecimal(binary1)
        num2 == binaryToDecimal(binary2)
    IN IF num1.threw THEN num1
       ELSE IF num2.threw THEN num2
       ELSE IF num2.value = 0
            THEN throws(LIB_DIVISION_BY_ZERO)
            ELSE decimalToBinary(floorOfQuotient(num1.value, num2.value))

\* leftShift(binary, shift) for an integer shift: << takes its left
\* operand as a signed integer of INT_BITS bits and the shift count modulo
\* INT_BITS.
leftShift(binary, shift) ==
    IF shift < 0 THEN throws(LIB_INVALID_SHIFT)
    ELSE LET num == binaryToDecimal(binary)
         IN IF num.threw THEN num
            ELSE decimalToBinary(
                    toInt32(toInt32(num.value) * 2^(shift % INT_BITS)))

\* rightShift(binary, shift) for an integer shift: >> keeps the sign.
rightShift(binary, shift) ==
    IF shift < 0 THEN throws(LIB_INVALID_SHIFT)
    ELSE LET num == binaryToDecimal(binary)
         IN IF num.threw THEN num
            ELSE decimalToBinary(
                    toInt32(num.value) \div 2^(shift % INT_BITS))

\* The bits of x and y, n of them, combined by the operator op.
RECURSIVE combineBits(_, _, _, _)
combineBits(op, x, y, n) ==
    IF n = 0 THEN 0
    ELSE LET a == x % 2
             b == y % 2
             bit == CASE op = "&" -> a * b
                      [] op = "|" -> IF a + b > 0 THEN 1 ELSE 0
                      [] op = "^" -> (a + b) % 2
         IN bit + 2 * combineBits(op, x \div 2, y \div 2, n - 1)

\* num1 op num2 for op in & | ^: both operands are taken as integers of
\* INT_BITS bits and the result is a signed one.
bitwise(op, num1, num2) ==
    toInt32(combineBits(op, toUint32(num1), toUint32(num2), INT_BITS))

\* Mutant of bitwiseAND: the operands are combined by |.
bitwiseAND_joining(binary1, binary2) ==
    LET num1 == binaryToDecimal(binary1)
        num2 == binaryToDecimal(binary2)
    IN IF num1.threw THEN num1
       ELSE IF num2.threw THEN num2
       ELSE decimalToBinary(bitwise("|", num1.value, num2.value))

bitwiseAND(binary1, binary2) ==
    LET num1 == binaryToDecimal(binary1)
        num2 == binaryToDecimal(binary2)
    IN IF num1.threw THEN num1
       ELSE IF num2.threw THEN num2
       ELSE decimalToBinary(bitwise("&", num1.value, num2.value))

bitwiseOR(binary1, binary2) ==
    LET num1 == binaryToDecimal(binary1)
        num2 == binaryToDecimal(binary2)
    IN IF num1.threw THEN num1
       ELSE IF num2.threw THEN num2
       ELSE decimalToBinary(bitwise("|", num1.value, num2.value))

bitwiseXOR(binary1, binary2) ==
    LET num1 == binaryToDecimal(binary1)
        num2 == binaryToDecimal(binary2)
    IN IF num1.threw THEN num1
       ELSE IF num2.threw THEN num2
       ELSE decimalToBinary(bitwise("^", num1.value, num2.value))

\* ~num: the complement of the signed integer of INT_BITS bits.
complement(num) == toInt32(0 - toInt32(num) - 1)

\* bitwiseNOT(binary): the complement is passed on as an unsigned integer.
bitwiseNOT(binary) ==
    LET num == binaryToDecimal(binary)
    IN IF num.threw THEN num
       ELSE decimalToBinary(toUint32(complement(num.value)))

LIB_INVALID_EXPONENT == "exponent must be a finite number"
LIB_NOT_FINITE == "the result exceeded the finite values"

\* Math.floor(Math.pow(base, exponent)) for a Number base >= 0 and an
\* integer exponent, or "Infinity" when Math.pow gives no finite value
\* (0 to a negative power; the powers that leave the range of a Number are
\* beyond the exponents drawn here).
floorOfPower(base, exponent) ==
    IF exponent = 0 THEN returns(1)
    ELSE IF exponent > 0 THEN returns(toNumber(base ^ exponent))
    ELSE IF base = 0 THEN throws("Infinity")
    ELSE IF base = 1 THEN returns(1)
    ELSE returns(0)

\* power(binary, exponent): the exponent is checked before the string.
power(binary, exponent) ==
    IF ~exponent.finite THEN throws(LIB_INVALID_EXPONENT)
    ELSE LET base == binaryToDecimal(binary)
         IN IF base.threw THEN base
            ELSE LET result == floorOfPower(base.value, exponent.value)
                 IN IF result.threw THEN throws(LIB_NOT_FINITE)
                    ELSE decimalToBinary(result.value)

\* The largest integer whose square is at most n.
integerRoot(n) ==
    CHOOSE r \in 0 .. 2^((bitLength(n) + 1) \div 2) :
        r * r <= n /\ n < (r + 1) * (r + 1)

\* Math.sqrt(num) for a Number num >= 0, in units of 2^(-f): the root
\* rounded to the nearest multiple of 2^(-f) (a root is never half way
\* between two of them).
roundedRoot(num, f) ==
    LET scaled == num * 4^f
        t == integerRoot(scaled)
    IN IF scaled > t * t + t THEN t + 1 ELSE t

\* Math.floor(Math.sqrt(num)): the root is rounded to SIGNIFICAND_BITS
\* significant bits before the floor.
floorOfSqrt(num) ==
    LET f == SIGNIFICAND_BITS - bitLength(integerRoot(num))
    IN IF f >= 0
       THEN roundedRoot(num, f) \div 2^f
       ELSE toNumber(integerRoot(num))

LIB_NEGATIVE_ROOT == "cannot compute the square root of a negative number"

\* Mutant of squareRoot: the root is rounded up.
squareRoot_roundingUp(binary) ==
    LET num == binaryToDecimal(binary)
    IN IF num.threw THEN num
       ELSE IF num.value < 0 THEN throws(LIB_NEGATIVE_ROOT)
       ELSE LET r == floorOfSqrt(num.value)
            IN decimalToBinary(IF r * r = num.value THEN r ELSE r + 1)

squareRoot(binary) ==
    LET num == binaryToDecimal(binary)
    IN IF num.threw THEN num
       ELSE IF num.value < 0 THEN throws(LIB_NEGATIVE_ROOT)
       ELSE decimalToBinary(floorOfSqrt(num.value))

\* ------------------------------------------------------- ui-controller.js
\* The state fields of a UIController; the text of errorDisplay stands for
\* the page.  Methods that UIController names like CalculatorEngine carry
\* the prefix ui_ here.
UIController ==
    [currentInput |-> <<"0">>,
     operator |-> "null",
     previousValue |-> NULL,
     history |-> << >>,
     isNewInput |-> TRUE,
     hasError |-> FALSE,
     errorDisplay |-> "null"]

showError(u, message) ==
    [u EXCEPT !.hasError = TRUE, !.errorDisplay = message]

clearError(u) ==
    [u EXCEPT !.hasError = FALSE, !.errorDisplay = "null"]

validateBinaryInput(value) == value = "0" \/ value = "1"

ui_validateBinaryLength(binary) ==
    IF Len(binary) > MAX_BITS THEN FALSE
    ELSE parseInt2(binary) <= MAX_VALUE

ui_addToHistory(u, calculation) ==
    LET pushed == Append(u.history, calculation)
    IN [u EXCEPT !.history =
            IF Len(pushed) > HISTORY_LIMIT THEN Tail(pushed) ELSE pushed]

\* clear(): history is not among the fields it sets.
ui_clear(u) ==
    clearError([u EXCEPT !.currentInput = <<"0">>,
                         !.operator = "null",
                         !.previousValue = NULL,
                         !.isNewInput = TRUE])

handleNumberInput(u, number) ==
    LET u1 == IF u.hasError THEN ui_clear(clearError(u)) ELSE u
    IN IF ~validateBinaryInput(number)
       THEN showError(u1, MSG_INVALID_DIGIT)
       ELSE
        LET u2 == IF u1.isNewInput
                  THEN [u1 EXCEPT !.currentInput = << >>,
                                  !.isNewInput = FALSE]
                  ELSE u1
            u3 == IF u2.currentInput = <<"0">>
                  THEN [u2 EXCEPT !.currentInput = << >>]
                  ELSE u2
            u4 == [u3 EXCEPT !.currentInput = Append(u3.currentInput, number)]
        IN IF ~ui_validateBinaryLength(u4.currentInput)
           THEN LET u5 == showError(u4, MSG_INPUT_OVERFLOW)
                    cut == sliceLast(u5.currentInput)
                IN [u5 EXCEPT !.currentInput =
                        IF cut = << >> THEN <<"0">> ELSE cut]
           ELSE u4

\* handleEquals(): nothing inside the try block throws, so the catch
\* handler is not modelled.
handleEquals(u) ==
    IF u.hasError \/ u.operator = "null" \/ u.previousValue = NULL
    THEN u
    ELSE
        LET num1 == parseInt2(u.previousValue)
            num2 == parseInt2(u.currentInput)
        IN IF u.operator = "/" /\ num2 = 0
           THEN showError(u, MSG_DIV_ZERO)
           ELSE IF u.operator \notin {"+", "-", "*", "/"}
           THEN u
           ELSE
            LET result == CASE u.operator = "+" -> num1 + num2
                            [] u.operator = "-" -> num1 - num2
                            [] u.operator = "*" -> num1 * num2
                            [] u.operator = "/" -> num1 \div num2
            IN IF result < 0
               THEN showError(u, MSG_NEGATIVE)
               ELSE IF result > MAX_VALUE
               THEN showError(u, MSG_RESULT_OVERFLOW)
               ELSE
                LET calculation ==
                        u.previousValue \o <<" ", u.operator, " ">>
                           \o u.currentInput \o <<" ", "=", " ">>
                           \o toString2(result)
                    u1 == ui_addToHistory(u, calculation)
                IN [u1 EXCEPT !.currentInput = toString2(result),
                              !.operator = "null",
                              !.previousValue = NULL,
                              !.isNewInput = TRUE]

\* handleOperatorInput(operator): the operator is stored whatever
\* handleEquals() has done.
handleOperatorInput(u, operator) ==
    IF u.hasError THEN u
    ELSE
        LET u1 == IF u.operator # "null" /\ ~u.isNewInput
                  THEN handleEquals(u)
                  ELSE u
        IN [u1 EXCEPT !.previousValue = u1.currentInput,
                      !.operator = operator,
                      !.isNewInput = TRUE]

ui_backspace(u) ==
    IF u.hasError THEN ui_clear(clearError(u))
    ELSE IF u.isNewInput \/ u.currentInput = <<"0">> THEN u
    ELSE LET cut == sliceLast(u.currentInput)
         IN [u EXCEPT !.currentInput = IF cut = << >> THEN <<"0">> ELSE cut]

\* calc is the calculator, lastOp the last call made on it, ret what that
\* call returned, steps the number of calls made.  instances holds the
\* calculators of a session that uses several of them, and alone the state
\* each of them reaches when its own calls are made on a calculator of its
\* own; both are empty when there is one calculator.  ui is the
\* UIController of a page that is driven by the same events as calc, and
\* is empty when there is none.
VARIABLES calc, lastOp, ret, steps, instances, alone, ui

vars == <<calc, lastOp, ret, steps, instances, alone, ui>>

\* Arguments the caller passes: the two binary digits and one other key,
\* the four operators and one other key.
DigitInputs == {"0", "1", "2"}
OperatorInputs == {"+", "-", "*", "/", "%"}

NoArg == "-"
NoReturn == [state |-> "none",
             currentValue |-> << >>,
             previousValue |-> NULL,
             operator |-> "null",
             errorMessage |-> "null",
             isNewInput |-> FALSE,
             decimalValue |-> 0,
             hasError |-> FALSE]

\* new CalculatorEngine(): the constructor calls reset().
constructor ==
    reset([state |-> "none", currentValue |-> << >>, previousValue |-> NULL,
           operator |-> "null", errorMessage |-> "null",
           isNewInput |-> FALSE, history |-> << >>])

Init ==
    /\ calc = constructor
    /\ lastOp = [name |-> "constructor", arg |-> NoArg, from |-> "none"]
    /\ ret = NoReturn
    /\ steps = 0
    /\ instances = << >>
    /\ alone = << >>
    /\ ui = << >>

Call(name, arg, after) ==
    /\ steps < MaxSteps
    /\ steps' = steps + 1
    /\ calc' = after
    /\ lastOp' = [name |-> name, arg |-> arg, from |-> calc.state]
    /\ ret' = getState(after)
    /\ UNCHANGED <<instances, alone, ui>>

InputDigit(d) == Call("inputDigit", d, inputDigit(calc, d))

InputOperator(op) == Call("inputOperator", op, inputOperator(calc, op))

Calculate == Call("calculate", NoArg, calculate(calc))

Backspace == Call("backspace", NoArg, backspace(calc))

Clear == Call("clear", NoArg, clear(calc))

Reset ==
    /\ steps < MaxSteps
    /\ steps' = steps + 1
    /\ calc' = reset(calc)
    /\ lastOp' = [name |-> "reset", arg |-> NoArg, from |-> calc.state]
    /\ ret' = NoReturn
    /\ UNCHANGED <<instances, alone, ui>>

Next ==
    \/ \E d \in DigitInputs : InputDigit(d)
    \/ \E op \in OperatorInputs : InputOperator(op)
    \/ Calculate
    \/ Backspace
    \/ Clear
    \/ Reset

Spec == Init /\ [][Next]_vars

\* ------------------------------------------------ the calculator is queried
\* getState(): the calculator is left alone and its snapshot is returned.
GetState == Call("getState", NoArg, calc)

\* getHistory(limit): the calculator is left alone; the list is returned,
\* or the call throws.
GetHistory(limit) ==
    /\ steps < MaxSteps
    /\ steps' = steps + 1
    /\ calc' = calc
    /\ lastOp' = [name |-> "getHistory",
                  arg |-> IF limit.type = "number"
                          THEN ToString(limit.value) ELSE "Symbol()",
                  from |-> calc.state]
    /\ ret' = getHistory(calc, limit)
    /\ UNCHANGED <<instances, alone, ui>>

NextQ ==
    \/ Next
    \/ GetState
    \/ \E limit \in LimitInputs : GetHistory(limit)

SpecQ == Init /\ [][NextQ]_vars

\* ------------------------------------------ a calculator with a long history
\* A session that counts up from 0 to MAX_VALUE and down again by adding
\* and subtracting 1 (operator, digit 1, calculate, each time on the result
\* shown): the value shown after its i-th calculation.
SessionValue(i) ==
    LET period == 2 * MAX_VALUE
        r == i % period
    IN IF r <= MAX_VALUE THEN r ELSE period - r

\* The record calculate() appends for the i-th calculation of the session.
SessionRecord(i) ==
    calculationRecord(toString2(SessionValue(i - 1)),
                      IF SessionValue(i) > SessionValue(i - 1)
                      THEN "+" ELSE "-",
                      <<"1">>,
                      toString2(SessionValue(i)))

\* The calculator after the n-th calculate() of the session (n below the
\* limit of addToHistory, so that nothing has been evicted yet).
afterSession(n) ==
    [state |-> RESULT,
     currentValue |-> toString2(SessionValue(n)),
     previousValue |-> NULL,
     operator |-> "null",
     errorMessage |-> "null",
     isNewInput |-> TRUE,
     history |-> [i \in 1 .. n |-> SessionRecord(i)]]

\* The calculator one record short of the limit of its history.
InitFull ==
    /\ calc = afterSession(HISTORY_LIMIT - 1)
    /\ lastOp = [name |-> "calculate", arg |-> NoArg, from |-> INPUT]
    /\ ret = getState(calc)
    /\ steps = 0
    /\ instances = << >>
    /\ alone = << >>
    /\ ui = << >>

SpecFull == InitFull /\ [][Next]_vars

\* ------------------------------------------------------- two calculators
\* Two calculators made by new CalculatorEngine() and used in turns.
Instances == {"A", "B"}

\* The number of calls made on the two calculators together.
MaxInterleaved == MaxSteps - 3

\* Mutant of assign: the calculators share one history array.
assign_sharingHistory(all, this, after) ==
    [i \in DOMAIN all |->
        IF i = this THEN after
        ELSE [all[i] EXCEPT !.history = after.history]]

\* this.field = value: a method writes the fields of the calculator it is
\* called on, and reset() gives that calculator a new, empty history array.
assign(all, this, after) == [all EXCEPT ![this] = after]

InitTwo ==
    /\ instances = [i \in Instances |-> constructor]
    /\ alone = [i \in Instances |-> constructor]
    /\ ui = << >>
    /\ calc = constructor
    /\ lastOp = [name |-> "constructor", arg |-> NoArg, from |-> "none",
                 on |-> "B"]
    /\ ret = NoReturn
    /\ steps = 0

\* A method is called on calculator `this`: after is the calculator the
\* method leaves when it is called on instances[this], afterAlone the one
\* it leaves when it is called on alone[this].
CallOn(this, name, arg, after, afterAlone) ==
    /\ steps < MaxInterleaved
    /\ steps' = steps + 1
    /\ instances' = assign(instances, this, after)
    /\ alone' = [alone EXCEPT ![this] = afterAlone]
    /\ lastOp' = [name |-> name, arg |-> arg,
                  from |-> instances[this].state, on |-> this]
    /\ ret' = getState(instances'[this])
    /\ UNCHANGED <<calc, ui>>

InputDigitOn(this, d) ==
    CallOn(this, "inputDigit", d,
           inputDigit(instances[this], d), inputDigit(alone[this], d))

InputOperatorOn(this, op) ==
    CallOn(this, "inputOperator", op,
           inputOperator(instances[this], op), inputOperator(alone[this], op))

CalculateOn(this) ==
    CallOn(this, "calculate", NoArg,
           calculate(instances[this]), calculate(alone[this]))

BackspaceOn(this) ==
    CallOn(this, "backspace", NoArg,
           backspace(instances[this]), backspace(alone[this]))

ClearOn(this) ==
    CallOn(this, "clear", NoArg,
           clear(instances[this]), clear(alone[this]))

NextTwo ==
    \E this \in Instances :
        \/ \E d \in DigitInputs : InputDigitOn(this, d)
        \/ \E op \in OperatorInputs : InputOperatorOn(this, op)
        \/ CalculateOn(this)
        \/ BackspaceOn(this)
        \/ ClearOn(this)

SpecTwo == InitTwo /\ [][NextTwo]_vars

\* ------------------------------------------------ the library is called
\* Strings of at most n characters of the set chars.
StringsOver(chars, n) == UNION {[1 .. k -> chars] : k \in 0 .. n}

\* The strings binaryToDecimal is called with: binary digits, the letters
\* of the prefix, a blank and a character that is none of these.
TextInputs == StringsOver({"0", "1", "b", "B", " ", "2"}, INT_BITS + 1)

\* The operands of the functions of two operands and of the shifts: binary
\* strings up to one digit longer than a Number holds exactly.
BinaryInputs == StringsOver({"0", "1"}, SIGNIFICAND_BITS + 1) \ {<< >>}

\* The shift amounts, a negative one included.
ShiftInputs == -1 .. INT_BITS + 1

\* The integers decimalToBinary is called with.
NumberInputs == (0 - 2^INT_BITS) .. 2^INT_BITS

\* The calls of library functions that can be made: the function and its
\* arguments.
callsOf(name, arguments) ==
    {[name |-> name, arg |-> args, from |-> "pending"] : args \in arguments}

\* A call of a library function is about to be made; the calculator takes
\* no part in it.
InitLib ==
    /\ \/ lastOp \in callsOf("binaryToDecimal",
                             {<<binary>> : binary \in TextInputs})
       \/ lastOp \in callsOf("binaryToDecimal",
                             {<<binary>> : binary \in BinaryInputs})
       \/ lastOp \in callsOf("decimalToBinary",
                             {<<decimal>> : decimal \in NumberInputs})
       \/ lastOp \in callsOf("addition", BinaryInputs \X BinaryInputs)
       \/ lastOp \in callsOf("subtraction", BinaryInputs \X BinaryInputs)
       \/ lastOp \in callsOf("multiplication", BinaryInputs \X BinaryInputs)
       \/ lastOp \in callsOf("division", BinaryInputs \X BinaryInputs)
       \/ lastOp \in callsOf("leftShift", BinaryInputs \X ShiftInputs)
       \/ lastOp \in callsOf("rightShift", BinaryInputs \X ShiftInputs)
    /\ ret = NoReturn
    /\ steps = 0
    /\ calc = constructor
    /\ instances = << >>
    /\ alone = << >>
    /\ ui = << >>

\* The pending call of function name is made: result is what it returns or
\* throws.
LibraryCall(name, result) ==
    /\ steps = 0
    /\ lastOp.name = name
    /\ steps' = steps + 1
    /\ ret' = result
    /\ lastOp' = [lastOp EXCEPT !.from = "called"]
    /\ UNCHANGED <<calc, instances, alone, ui>>

BinaryToDecimal ==
    LibraryCall("binaryToDecimal", binaryToDecimal(lastOp.arg[1]))

DecimalToBinary ==
    LibraryCall("decimalToBinary", decimalToBinary(lastOp.arg[1]))

Addition ==
    LibraryCall("addition", addition(lastOp.arg[1], lastOp.arg[2]))

Subtraction ==
    LibraryCall("subtraction", subtraction(lastOp.arg[1], lastOp.arg[2]))

Multiplication ==
    LibraryCall("multiplication",
                multiplication(lastOp.arg[1], lastOp.arg[2]))

Division ==
    LibraryCall("division", division(lastOp.arg[1], lastOp.arg[2]))

LeftShift ==
    LibraryCall("leftShift", leftShift(lastOp.arg[1], lastOp.arg[2]))

RightShift ==
    LibraryCall("rightShift", rightShift(lastOp.arg[1], lastOp.arg[2]))

NextLib ==
    \/ BinaryToDecimal
    \/ DecimalToBinary
    \/ Addition
    \/ Subtraction
    \/ Multiplication
    \/ Division
    \/ LeftShift
    \/ RightShift

SpecLib == InitLib /\ [][NextLib]_vars

\* Strings that are not binary strings: the empty one, one with another
\* digit, and a prefix without digits.
MalformedInputs == {<< >>, <<"2">>, <<"1", "0", "2">>, <<"0", "b">>}

\* The strings every function of the library is called with.
OperandInputs == BinaryInputs \cup MalformedInputs

\* The exponents: an exponent is a Number, a finite one with its value
\* (integers here) or NaN / Infinity.
ExponentInputs ==
    {[finite |-> FALSE, value |-> 0]}
       \cup {[finite |-> TRUE, value |-> x] : x \in -1 .. 2}

\* A call of any of the exported functions is about to be made, with
\* well-formed or malformed strings.
InitOps ==
    /\ \/ lastOp \in callsOf("binaryToDecimal",
                             {<<binary>> : binary \in OperandInputs})
       \/ lastOp \in callsOf("decimalToBinary",
                             {<<decimal>> : decimal \in NumberInputs})
       \/ lastOp \in callsOf("addition", OperandInputs \X OperandInputs)
       \/ lastOp \in callsOf("subtraction", OperandInputs \X OperandInputs)
       \/ lastOp \in callsOf("multiplication",
                             OperandInputs \X OperandInputs)
       \/ lastOp \in callsOf("division", OperandInputs \X OperandInputs)
       \/ lastOp \in callsOf("bitwiseAND", OperandInputs \X OperandInputs)
       \/ lastOp \in callsOf("bitwiseOR", OperandInputs \X OperandInputs)
       \/ lastOp \in callsOf("bitwiseXOR", OperandInputs \X OperandInputs)
       \/ lastOp \in callsOf("bitwiseNOT",
                             {<<binary>> : binary \in OperandInputs})
       \/ lastOp \in callsOf("leftShift", OperandInputs \X ShiftInputs)
       \/ lastOp \in callsOf("rightShift", OperandInputs \X ShiftInputs)
       \/ lastOp \in callsOf("power", OperandInputs \X ExponentInputs)
       \/ lastOp \in callsOf("squareRoot",
                             {<<binary>> : binary \in OperandInputs})
    /\ ret = NoReturn
    /\ steps = 0
    /\ calc = constructor
    /\ instances = << >>
    /\ alone = << >>
    /\ ui = << >>

BitwiseAND ==
    LibraryCall("bitwiseAND", bitwiseAND(lastOp.arg[1], lastOp.arg[2]))

BitwiseOR ==
    LibraryCall("bitwiseOR", bitwiseOR(lastOp.arg[1], lastOp.arg[2]))

BitwiseXOR ==
    LibraryCall("bitwiseXOR", bitwiseXOR(lastOp.arg[1], lastOp.arg[2]))

BitwiseNOT ==
    LibraryCall("bitwiseNOT", bitwiseNOT(lastOp.arg[1]))

Power ==
    LibraryCall("power", power(lastOp.arg[1], lastOp.arg[2]))

SquareRoot ==
    LibraryCall("squareRoot", squareRoot(lastOp.arg[1]))

NextOps ==
    \/ NextLib
    \/ BitwiseAND
    \/ BitwiseOR
    \/ BitwiseXOR
    \/ BitwiseNOT
    \/ Power
    \/ SquareRoot

SpecOps == InitOps /\ [][NextOps]_vars

\* The keys that reach a handler of the page: the two digits and the four
\* operators (Enter, Backspace and Escape take no argument).
DigitKeys == {"0", "1"}
OperatorKeys == {"+", "-", "*", "/"}

\* A page with a new UIController, next to a new CalculatorEngine that is
\* driven by the same events.
InitUI ==
    /\ calc = constructor
    /\ ui = UIController
    /\ lastOp = [name |-> "constructor", arg |-> NoArg, from |-> "none"]
    /\ ret = NoReturn
    /\ steps = 0
    /\ instances = << >>
    /\ alone = << >>

\* An event reaches both: afterCalc is the calculator the method of
\* CalculatorEngine leaves, afterUI the controller the handler of
\* UIController leaves.
Event(name, arg, afterCalc, afterUI) ==
    /\ steps < MaxSteps
    /\ steps' = steps + 1
    /\ calc' = afterCalc
    /\ ui' = afterUI
    /\ lastOp' = [name |-> name, arg |-> arg, from |-> calc.state]
    /\ ret' = getState(calc')
    /\ UNCHANGED <<instances, alone>>

DigitKey(d) ==
    Event("inputDigit", d, inputDigit(calc, d), handleNumberInput(ui, d))

OperatorKey(op) ==
    Event("inputOperator", op,
          inputOperator(calc, op), handleOperatorInput(ui, op))

EqualsKey == Event("calculate", NoArg, calculate(calc), handleEquals(ui))

BackspaceKey == Event("backspace", NoArg, backspace(calc), ui_backspace(ui))

ClearKey == Event("clear", NoArg, clear(calc), ui_clear(ui))

NextUI ==
    \/ \E d \in DigitKeys : DigitKey(d)
    \/ \E op \in OperatorKeys : OperatorKey(op)
    \/ EqualsKey
    \/ BackspaceKey
    \/ ClearKey

SpecUI == InitUI /\ [][NextUI]_vars

\* ------------------------------------------------ vocabulary of the claims
\* The number a binary string denotes, most significant digit first.
RECURSIVE Value(_)
Value(s) ==
    IF s = << >> THEN 0
    ELSE (IF Head(s) = "1" THEN 2^(Len(s) - 1) ELSE 0) + Value(Tail(s))

\* s is the binary string of n: binary digits only, no leading zero unless
\* it is exactly "0", denoting n.
IsBinaryOf(s, n) ==
    /\ Len(s) >= 1
    /\ \A i \in 1..Len(s) : s[i] \in {"0", "1"}
    /\ Len(s) > 1 => s[1] = "1"
    /\ Value(s) = n

\* calculate() is called and neither of its early returns is taken.
CalculateRuns ==
    /\ lastOp'.name = "calculate"
    /\ calc.state # ERROR
    /\ calc.operator # "null"
    /\ calc.previousValue # NULL

\* The result the pending operation has over the integers.
Expected(op, a, b) ==
    CASE op = "+" -> a + b
      [] op = "-" -> a - b
      [] op = "*" -> a * b
      [] op = "/" -> IF b = 0 THEN 0 ELSE a \div b

\* The pending operation has no result the calculator can show.
ArithmeticFailure(op, a, b) ==
    \/ op = "-" /\ a < b
    \/ op = "/" /\ b = 0
    \/ op \in {"+", "*"} /\ Expected(op, a, b) > 2^MAX_BITS - 1

\* history after one record has been appended to `before`.
Appended(before, record, after) ==
    /\ Len(after) >= 1
    /\ after[Len(after)] = record
    /\ SubSeq(after, 1, Len(after) - 1) =
           (IF Len(before) < HISTORY_LIMIT THEN before ELSE Tail(before))

\* --------------------------------------------------------------- claims
\* C1: when calculate() succeeds, currentValue is the binary string of the
\* result, operator and previousValue are cleared, isNewInput is true, the
\* phase is RESULT, and exactly one record "previousValue operator
\* currentValue = result", built from the operands held before the call,
\* has been appended at the end of history.
C1_CalculateSuccess ==
    [][ (CalculateRuns /\ calc'.state # ERROR) =>
          LET a == Value(calc.previousValue)
              b == Value(calc.currentValue)
              r == Expected(calc.operator, a, b)
          IN /\ IsBinaryOf(calc'.currentValue, r)
             /\ calc'.operator = "null"
             /\ calc'.previousValue = NULL
             /\ calc'.isNewInput = TRUE
             /\ calc'.state = RESULT
             /\ Appended(calc.history,
                         calc.previousValue \o <<" ", calc.operator, " ">>
                            \o calc.currentValue \o <<" ", "=", " ">>
                            \o calc'.currentValue,
                         calc'.history) ]_vars

\* A second successful calculation: "1 + 1 = 10" is already in history and
\* "10 - 1 = 1" has just been appended behind it.
C1_Witness ==
    /\ lastOp.name = "calculate"
    /\ calc.state = RESULT
    /\ calc.history = << <<"1", " ", "+", " ", "1", " ", "=", " ", "1", "0">>,
                         <<"1", "0", " ", "-", " ", "1", " ", "=", " ", "1">> >>

\* C2: when calculate() succeeds, the value of the new currentValue is the
\* sum, difference, product or floored quotient of the values of
\* previousValue and currentValue held before the call.
C2_CalculateValue ==
    [][ (CalculateRuns /\ calc'.state # ERROR) =>
          LET a == Value(calc.previousValue)
              b == Value(calc.currentValue)
          IN \/ calc.operator = "+" /\ Value(calc'.currentValue) = a + b
             \/ calc.operator = "-" /\ Value(calc'.currentValue) = a - b
             \/ calc.operator = "*" /\ Value(calc'.currentValue) = a * b
             \/ calc.operator = "/" /\ b # 0
                  /\ Value(calc'.currentValue) * b <= a
                  /\ a < (Value(calc'.currentValue) + 1) * b ]_vars

\* A division that does not come out even: 111 / 10 = 11 (7 / 2 = 3).
C2_Witness ==
    /\ lastOp.name = "calculate"
    /\ lastOp.from = INPUT
    /\ calc.state = RESULT
    /\ calc.currentValue = <<"1", "1">>
    /\ Len(calc.history) = 1
    /\ calc.history[1] =
          <<"1", "1", "1", " ", "/", " ", "1", "0", " ", "=", " ", "1", "1">>

\* C3: with an operator and previousValue set and the phase not ERROR,
\* calculate() ends in ERROR exactly when the operation is a subtraction
\* with a negative result, a division by zero, or an addition or
\* multiplication whose result exceeds MAX_VALUE; the message names the
\* case.  In every other case it succeeds.
C3_CalculateFailsExactly ==
    [][ CalculateRuns =>
          LET a == Value(calc.previousValue)
              b == Value(calc.currentValue)
              op == calc.operator
          IN /\ (calc'.state = ERROR) <=> ArithmeticFailure(op, a, b)
             /\ (op = "-" /\ a < b) => calc'.errorMessage = MSG_NEGATIVE
             /\ (op = "/" /\ b = 0) => calc'.errorMessage = MSG_DIV_ZERO
             /\ (op \in {"+", "*"} /\ Expected(op, a, b) > 2^MAX_BITS - 1)
                    => calc'.errorMessage = MSG_RESULT_OVERFLOW
             /\ ~ArithmeticFailure(op, a, b) => calc'.state = RESULT ]_vars

\* A multiplication that overflows: 100 * 10 (4 * 2 = 8 > MAX_VALUE at
\* width 3), with the operands still in place.
C3_Witness ==
    /\ lastOp.name = "calculate"
    /\ calc.state = ERROR
    /\ calc.errorMessage = MSG_RESULT_OVERFLOW
    /\ calc.operator = "*"
    /\ Value(calc.previousValue) * Value(calc.currentValue) > 2^MAX_BITS - 1
    /\ Value(calc.previousValue) + Value(calc.currentValue) <= 2^MAX_BITS - 1

\* C4: when calculate() fails, the phase becomes ERROR and errorMessage is
\* set, and currentValue, previousValue, operator and history are what they
\* were before the call.
C4_CalculateFailureFrame ==
    [][ (CalculateRuns /\ calc'.state = ERROR) =>
          /\ calc'.errorMessage # "null"
          /\ ret'.hasError /\ ret'.errorMessage = calc'.errorMessage
          /\ calc'.currentValue = calc.currentValue
          /\ calc'.previousValue = calc.previousValue
          /\ calc'.operator = calc.operator
          /\ calc'.history = calc.history ]_vars

\* A failed subtraction after a completed calculation: the record of the
\* earlier calculation and both operands are still there.
C4_Witness ==
    /\ lastOp.name = "calculate"
    /\ calc.state = ERROR
    /\ calc.errorMessage = MSG_NEGATIVE
    /\ calc.operator = "-"
    /\ calc.previousValue # NULL
    /\ Value(calc.previousValue) < Value(calc.currentValue)
    /\ Len(calc.history) = 1

\* The messages calculate() reports for an arithmetic failure.
ArithmeticMessages == {MSG_NEGATIVE, MSG_DIV_ZERO, MSG_RESULT_OVERFLOW}

\* Every field but history has the value the constructor gives it.
InitialFields(e) ==
    /\ e.state = INPUT
    /\ e.currentValue = <<"0">>
    /\ e.previousValue = NULL
    /\ e.operator = "null"
    /\ e.isNewInput = TRUE
    /\ e.errorMessage = "null"

\* C5 (as claimed): after a calculate() that fails with an arithmetic
\* error the records of earlier calculations are still in history, both
\* immediately and after the calculator has left ERROR through a digit
\* input or a backspace.
C5_HistorySurvivesError ==
    [][ /\ (CalculateRuns /\ calc'.state = ERROR)
              => calc'.history = calc.history
        /\ ( /\ calc.state = ERROR
             /\ calc.errorMessage \in ArithmeticMessages
             /\ \/ lastOp'.name = "inputDigit" /\ lastOp'.arg \in {"0", "1"}
                \/ lastOp'.name = "backspace" )
              => calc'.history = calc.history ]_vars

\* C6 (as claimed): clear() returns every field but history to its initial
\* value and leaves history unchanged; reset() does the same and empties
\* history; a clear() directly after a clear() changes nothing.
C6_ClearKeepsHistory ==
    [][ /\ lastOp'.name = "clear"
              => InitialFields(calc') /\ calc'.history = calc.history
        /\ lastOp'.name = "reset"
              => InitialFields(calc') /\ calc'.history = << >>
        /\ (lastOp.name = "clear" /\ lastOp'.name = "clear")
              => calc' = calc ]_vars

\* inputDigit is called with a binary digit that does not fit: the digit
\* would be appended to MAX_BITS digits already typed.
DigitOverflows ==
    /\ lastOp'.name = "inputDigit"
    /\ lastOp'.arg \in {"0", "1"}
    /\ calc.state # ERROR
    /\ ~calc.isNewInput
    /\ calc.currentValue # <<"0">>
    /\ Len(calc.currentValue) = MAX_BITS

\* C7: when inputDigit appends a valid digit that would make currentValue
\* longer than MAX_BITS digits, the digit is rolled back: currentValue,
\* previousValue, operator and history are what they were before the call,
\* and the returned state reports the overflow (hasError with the
\* input-too-large message).
C7_OverflowRollback ==
    [][ DigitOverflows =>
          /\ calc'.currentValue = calc.currentValue
          /\ calc'.previousValue = calc.previousValue
          /\ calc'.operator = calc.operator
          /\ calc'.history = calc.history
          /\ ret'.hasError
          /\ ret'.errorMessage = MSG_INPUT_OVERFLOW
          /\ ret'.currentValue = calc.currentValue ]_vars

\* A digit rejected while typing the second operand: the operand still has
\* MAX_BITS digits and the operation is still pending.
C7_Witness ==
    /\ lastOp.name = "inputDigit"
    /\ ret.hasError
    /\ ret.errorMessage = MSG_INPUT_OVERFLOW
    /\ Len(calc.currentValue) = MAX_BITS
    /\ calc.previousValue = <<"1">>
    /\ calc.operator = "+"

\* C8 (as claimed): when inputDigit rejects a digit for overflow, the phase
\* after the call equals the phase before the call.
C8_PhaseKept ==
    [][ DigitOverflows => calc'.state = calc.state ]_vars

\* C8 (amended): when inputDigit rejects a digit for overflow, the call
\* was made in phase INPUT and the phase after the call is ERROR.
C8_PhaseBecomesError ==
    [][ DigitOverflows =>
          /\ calc.state = INPUT
          /\ calc'.state = ERROR
          /\ ret'.state = ERROR ]_vars

\* MAX_BITS + 1 consecutive digits 1: the last one has been rejected and
\* the phase has gone from INPUT to ERROR.
C8_Witness ==
    /\ lastOp = [name |-> "inputDigit", arg |-> "1", from |-> INPUT]
    /\ steps = MAX_BITS + 1
    /\ calc.state = ERROR
    /\ calc.errorMessage = MSG_INPUT_OVERFLOW
    /\ calc.currentValue = [i \in 1..MAX_BITS |-> "1"]
    /\ calc.previousValue = NULL

\* The state a rejected digit leaves behind.
AfterOverflowRejection ==
    /\ lastOp.name = "inputDigit"
    /\ calc.state = ERROR
    /\ calc.errorMessage = MSG_INPUT_OVERFLOW

\* C9 (as claimed): after a digit has been rejected for overflow, the
\* retained currentValue and the pending previousValue and operator
\* survive the following operations: backspace() yields the prefix one
\* digit shorter, and calculate() runs the pending operation on the
\* retained operand.
C9_InputSurvivesRejection ==
    [][ AfterOverflowRejection =>
          /\ lastOp'.name = "backspace" =>
                /\ calc'.currentValue =
                       SubSeq(calc.currentValue, 1, MAX_BITS - 1)
                /\ calc'.previousValue = calc.previousValue
                /\ calc'.operator = calc.operator
          /\ (lastOp'.name = "calculate" /\ calc.operator # "null") =>
                \/ /\ calc'.state = RESULT
                   /\ Len(calc'.history) = Len(calc.history) + 1
                \/ /\ calc'.state = ERROR
                   /\ calc'.errorMessage \in ArithmeticMessages ]_vars

\* C9 (amended): after a digit has been rejected for overflow the
\* calculator is in ERROR, still holding the MAX_BITS-digit currentValue,
\* but the input does not survive the following operations: backspace()
\* performs a full reset (currentValue "0", no previousValue, no operator,
\* phase INPUT) and calculate() changes nothing.
C9_RejectionThenReset ==
    [][ AfterOverflowRejection =>
          /\ Len(calc.currentValue) = MAX_BITS
          /\ lastOp'.name = "backspace" =>
                /\ calc'.currentValue = <<"0">>
                /\ calc'.previousValue = NULL
                /\ calc'.operator = "null"
                /\ calc'.isNewInput
                /\ calc'.state = INPUT
          /\ lastOp'.name = "calculate" => calc' = calc ]_vars

\* calculate() has been called right after a rejected digit, with an
\* operation pending: nothing was calculated.
C9_Witness ==
    /\ lastOp = [name |-> "calculate", arg |-> NoArg, from |-> ERROR]
    /\ calc.state = ERROR
    /\ calc.errorMessage = MSG_INPUT_OVERFLOW
    /\ calc.operator # "null"
    /\ calc.previousValue # NULL
    /\ Len(calc.currentValue) = MAX_BITS
    /\ calc.history = << >>

\* C10: from every ERROR state, inputDigit with a binary digit and clear()
\* each leave ERROR in one step: afterwards the phase is INPUT, hasError
\* is false, errorMessage is null, and after the digit input currentValue
\* is that digit.
C10_Recovery ==
    [][ ( /\ calc.state = ERROR
          /\ \/ lastOp'.name = "inputDigit" /\ lastOp'.arg \in {"0", "1"}
             \/ lastOp'.name = "clear" ) =>
          /\ calc'.state = INPUT
          /\ calc'.errorMessage = "null"
          /\ ~ret'.hasError
          /\ ret'.errorMessage = "null"
          /\ lastOp'.name = "inputDigit"
                => calc'.currentValue = <<lastOp'.arg>> ]_vars

\* A digit typed in ERROR: the calculator is back in INPUT showing it.
C10_Witness ==
    /\ lastOp = [name |-> "inputDigit", arg |-> "1", from |-> ERROR]
    /\ calc.state = INPUT
    /\ calc.currentValue = <<"1">>
    /\ calc.errorMessage = "null"
    /\ ~ret.hasError

\* The four operators of the calculator and its two digits.
Operators == {"+", "-", "*", "/"}
BinaryDigits == {"0", "1"}

\* C11: inputOperator with one of the four operators, called outside ERROR
\* with no pending calculation to run, stores the currentValue held before
\* the call in previousValue, stores the operator, sets isNewInput and the
\* phase OPERATOR and leaves currentValue and history unchanged; the next
\* binary digit then replaces currentValue instead of being appended.
C11_OperatorStored ==
    [][ /\ ( /\ lastOp'.name = "inputOperator"
             /\ lastOp'.arg \in Operators
             /\ calc.state # ERROR
             /\ (calc.operator = "null" \/ calc.isNewInput) ) =>
              /\ calc'.previousValue = calc.currentValue
              /\ calc'.operator = lastOp'.arg
              /\ calc'.isNewInput = TRUE
              /\ calc'.state = OPERATOR
              /\ calc'.currentValue = calc.currentValue
              /\ calc'.history = calc.history
        /\ ( /\ lastOp.name = "inputOperator"
             /\ calc.state = OPERATOR
             /\ lastOp'.name = "inputDigit"
             /\ lastOp'.arg \in BinaryDigits ) =>
              /\ calc'.currentValue = <<lastOp'.arg>>
              /\ calc'.previousValue = calc.previousValue
              /\ calc'.operator = calc.operator ]_vars

\* Digits 1, 0, 1, then "+", then digit 1: previousValue is 101 and the
\* digit has replaced the displayed 101.
C11_Witness ==
    /\ lastOp = [name |-> "inputDigit", arg |-> "1", from |-> OPERATOR]
    /\ calc.previousValue = <<"1", "0", "1">>
    /\ calc.operator = "+"
    /\ calc.currentValue = <<"1">>
    /\ calc.state = INPUT

\* C12: inputOperator called with an operator pending and a second operand
\* typed runs the pending operation first.  When it succeeds, one record is
\* appended to history, previousValue (and currentValue) is the result, the
\* operator is the new one and the phase is OPERATOR; when it fails, the
\* calculator is in ERROR and the new operator is not stored: operator and
\* previousValue are those of the failed operation.
C12_ChainedOperator ==
    [][ ( /\ lastOp'.name = "inputOperator"
          /\ lastOp'.arg \in Operators
          /\ calc.state # ERROR
          /\ calc.operator # "null"
          /\ ~calc.isNewInput ) =>
          LET a == Value(calc.previousValue)
              b == Value(calc.currentValue)
              op == calc.operator
          IN IF ArithmeticFailure(op, a, b)
             THEN /\ calc'.state = ERROR
                  /\ calc'.errorMessage \in ArithmeticMessages
                  /\ calc'.operator = calc.operator
                  /\ calc'.previousValue = calc.previousValue
                  /\ calc'.currentValue = calc.currentValue
                  /\ calc'.history = calc.history
             ELSE /\ calc'.state = OPERATOR
                  /\ calc'.operator = lastOp'.arg
                  /\ IsBinaryOf(calc'.previousValue, Expected(op, a, b))
                  /\ calc'.currentValue = calc'.previousValue
                  /\ calc'.isNewInput
                  /\ Appended(calc.history,
                              calc.previousValue \o <<" ", op, " ">>
                                 \o calc.currentValue \o <<" ", "=", " ">>
                                 \o calc'.previousValue,
                              calc'.history) ]_vars

\* 10 + 11 followed by "*": the sum 101 has been calculated and recorded
\* and is the first operand of the multiplication.
C12_Witness ==
    /\ lastOp = [name |-> "inputOperator", arg |-> "*", from |-> INPUT]
    /\ calc.state = OPERATOR
    /\ calc.operator = "*"
    /\ calc.previousValue = <<"1", "0", "1">>
    /\ calc.history =
          << <<"1", "0", " ", "+", " ", "1", "1", " ", "=", " ", "1", "0", "1">> >>

\* The value returned by the call is a snapshot of the calculator as it was
\* before the call.
ReturnsStateOf(e, snapshot) ==
    /\ snapshot # NoReturn
    /\ snapshot.state = e.state
    /\ snapshot.currentValue = e.currentValue
    /\ snapshot.previousValue = e.previousValue
    /\ snapshot.operator = e.operator
    /\ snapshot.errorMessage = e.errorMessage
    /\ snapshot.isNewInput = e.isNewInput
    /\ snapshot.decimalValue = Value(e.currentValue)
    /\ snapshot.hasError = (e.state = ERROR)

\* C13: inputOperator and calculate called in ERROR, and calculate called
\* with no operator or no previousValue set, change no field (state,
\* currentValue, previousValue, operator, isNewInput, errorMessage, history)
\* and return the current state.
C13_IgnoredCalls ==
    [][ ( \/ /\ lastOp'.name \in {"inputOperator", "calculate"}
             /\ calc.state = ERROR
          \/ /\ lastOp'.name = "calculate"
             /\ (calc.operator = "null" \/ calc.previousValue = NULL) ) =>
          /\ calc'.state = calc.state
          /\ calc'.currentValue = calc.currentValue
          /\ calc'.previousValue = calc.previousValue
          /\ calc'.operator = calc.operator
          /\ calc'.isNewInput = calc.isNewInput
          /\ calc'.errorMessage = calc.errorMessage
          /\ calc'.history = calc.history
          /\ ReturnsStateOf(calc, ret') ]_vars

\* A division by zero has failed and calculate() has been called again in
\* ERROR: the failed operation and its message are still there.
C13_Witness ==
    /\ lastOp = [name |-> "calculate", arg |-> NoArg, from |-> ERROR]
    /\ calc.state = ERROR
    /\ calc.errorMessage = MSG_DIV_ZERO
    /\ calc.operator = "/"
    /\ calc.previousValue = <<"1">>
    /\ ret # NoReturn
    /\ ret.hasError

\* C14: inputDigit with a digit other than "0" and "1", and inputOperator
\* with an operator other than + - * / called outside ERROR, end in ERROR
\* with errorMessage set; when the call starts outside ERROR, currentValue,
\* previousValue, operator and history are unchanged.
C14_InvalidKeyRejected ==
    [][ LET badDigit == lastOp'.name = "inputDigit"
                           /\ lastOp'.arg \notin BinaryDigits
            badOperator == lastOp'.name = "inputOperator"
                              /\ lastOp'.arg \notin Operators
                              /\ calc.state # ERROR
        IN /\ (badDigit \/ badOperator) =>
                 /\ calc'.state = ERROR
                 /\ calc'.errorMessage # "null"
                 /\ ret'.hasError
           /\ badDigit => calc'.errorMessage = MSG_INVALID_DIGIT
           /\ badOperator => calc'.errorMessage = MSG_INVALID_OPERATOR
           /\ ((badDigit \/ badOperator) /\ calc.state # ERROR) =>
                 /\ calc'.currentValue = calc.currentValue
                 /\ calc'.previousValue = calc.previousValue
                 /\ calc'.operator = calc.operator
                 /\ calc'.history = calc.history ]_vars

\* 1 + 11 followed by the key "%": the key is rejected and the pending
\* addition is still there.
C14_Witness ==
    /\ lastOp = [name |-> "inputOperator", arg |-> "%", from |-> INPUT]
    /\ calc.state = ERROR
    /\ calc.errorMessage = MSG_INVALID_OPERATOR
    /\ calc.currentValue = <<"1", "1">>
    /\ calc.previousValue = <<"1">>
    /\ calc.operator = "+"

\* What a binary digit that fits does to the calculator: it replaces a
\* fresh currentValue or a lone "0" and is appended otherwise; the phase is
\* INPUT, isNewInput is false, previousValue, operator and history are
\* unchanged.
DigitEntered ==
    /\ calc'.currentValue =
          (IF calc.isNewInput \/ calc.currentValue = <<"0">>
           THEN <<lastOp'.arg>>
           ELSE calc.currentValue \o <<lastOp'.arg>>)
    /\ calc'.state = INPUT
    /\ calc'.isNewInput = FALSE
    /\ calc'.previousValue = calc.previousValue
    /\ calc'.operator = calc.operator
    /\ calc'.history = calc.history

\* C15 (as claimed): every inputDigit with a binary digit that does not
\* overflow, in whatever phase it is called, replaces a fresh currentValue
\* by the digit and appends it otherwise (a lone "0" is replaced), ends in
\* INPUT with isNewInput false and leaves previousValue, operator and
\* history unchanged.
C15_DigitEnteredAnyPhase ==
    [][ ( /\ lastOp'.name = "inputDigit"
          /\ lastOp'.arg \in BinaryDigits
          /\ ~DigitOverflows ) => DigitEntered ]_vars

\* C15 (amended): the same, for an inputDigit called in a phase other than
\* ERROR; in ERROR the calculator is reset before the digit is entered.
C15_DigitEnteredOutsideError ==
    [][ ( /\ lastOp'.name = "inputDigit"
          /\ lastOp'.arg \in BinaryDigits
          /\ calc.state # ERROR
          /\ ~DigitOverflows ) => DigitEntered ]_vars

\* 1 + 10 followed by the digit 1: the digit is appended to the second
\* operand and the pending addition is still there.
C15_Witness ==
    /\ lastOp = [name |-> "inputDigit", arg |-> "1", from |-> INPUT]
    /\ calc.currentValue = <<"1", "0", "1">>
    /\ calc.previousValue = <<"1">>
    /\ calc.operator = "+"
    /\ calc.state = INPUT
    /\ ~calc.isNewInput

\* C16: backspace changes nothing when isNewInput is true or currentValue
\* is "0" (outside ERROR); in ERROR it performs a full reset; otherwise it
\* removes the last character of currentValue, puts "0" when nothing is
\* left, and changes no other field.
C16_Backspace ==
    [][ lastOp'.name = "backspace" =>
          IF calc.state = ERROR
          THEN InitialFields(calc') /\ calc'.history = << >>
          ELSE IF calc.isNewInput \/ calc.currentValue = <<"0">>
          THEN calc' = calc
          ELSE /\ calc'.currentValue =
                     (IF Len(calc.currentValue) = 1
                      THEN <<"0">>
                      ELSE SubSeq(calc.currentValue, 1,
                                  Len(calc.currentValue) - 1))
               /\ calc'.state = calc.state
               /\ calc'.previousValue = calc.previousValue
               /\ calc'.operator = calc.operator
               /\ calc'.isNewInput = calc.isNewInput
               /\ calc'.errorMessage = calc.errorMessage
               /\ calc'.history = calc.history ]_vars

\* 1 + 11 followed by a backspace: the second operand is 1 and the pending
\* addition is still there.
C16_Witness ==
    /\ lastOp = [name |-> "backspace", arg |-> NoArg, from |-> INPUT]
    /\ calc.currentValue = <<"1">>
    /\ calc.previousValue = <<"1">>
    /\ calc.operator = "+"
    /\ ~calc.isNewInput

\* C19: in every reachable state errorMessage is set exactly when the
\* phase is ERROR, and the hasError flag of getState() -- of the snapshot
\* the last call returned and of one taken now -- is true exactly when the
\* phase is ERROR.
C19_ErrorIffMessage ==
    /\ (calc.errorMessage # "null") <=> (calc.state = ERROR)
    /\ getState(calc).hasError <=> (calc.state = ERROR)
    /\ getState(calc).errorMessage = calc.errorMessage
    /\ ret # NoReturn => (ret.hasError <=> (calc.state = ERROR))
    /\ ret # NoReturn => ((ret.errorMessage # "null") <=> ret.hasError)

\* A subtraction has failed: the phase is ERROR, the message is set and
\* the returned snapshot has hasError.
C19_Witness ==
    /\ lastOp.name = "calculate"
    /\ calc.state = ERROR
    /\ calc.errorMessage = MSG_NEGATIVE
    /\ ret.hasError
    /\ ret.errorMessage = MSG_NEGATIVE

\* A calculation succeeds in this step, through calculate() or through the
\* operator that follows a second operand.
CalculationRecorded ==
    /\ calc.state # ERROR
    /\ calc.operator # "null"
    /\ calc.previousValue # NULL
    /\ \/ lastOp'.name = "calculate"
       \/ /\ lastOp'.name = "inputOperator"
          /\ lastOp'.arg \in Operators
          /\ ~calc.isNewInput
    /\ calc'.state # ERROR

\* C17: history never holds more than HISTORY_LIMIT records and is in
\* insertion order: a step either leaves it alone, empties it, or appends
\* one record behind the others; when a record is appended to a history of
\* HISTORY_LIMIT records the oldest one is removed and the other
\* HISTORY_LIMIT - 1 keep their order ahead of the new one.
C17_HistoryCapped ==
    [][ LET old == calc.history
            new == calc'.history
            record == calc.previousValue \o <<" ", calc.operator, " ">>
                         \o calc.currentValue \o <<" ", "=", " ">>
                         \o calc'.currentValue
        IN /\ Len(old) <= HISTORY_LIMIT
           /\ Len(new) <= HISTORY_LIMIT
           /\ ~CalculationRecorded => (new = old \/ new = << >>)
           /\ (CalculationRecorded /\ Len(old) < HISTORY_LIMIT) =>
                 /\ Len(new) = Len(old) + 1
                 /\ \A i \in 1 .. Len(old) : new[i] = old[i]
                 /\ new[Len(new)] = record
           /\ (CalculationRecorded /\ Len(old) = HISTORY_LIMIT) =>
                 /\ Len(new) = HISTORY_LIMIT
                 /\ \A i \in 1 .. HISTORY_LIMIT - 1 : new[i] = old[i + 1]
                 /\ new[HISTORY_LIMIT] = record ]_vars

\* Two calculations after a session of HISTORY_LIMIT - 1: the first record
\* of the session has been evicted, the second one is now the oldest and
\* the two new records are the last ones.
C17_Witness ==
    /\ lastOp.name = "calculate"
    /\ Len(calc.history) = HISTORY_LIMIT
    /\ calc.history[1] = SessionRecord(2)
    /\ calc.history[HISTORY_LIMIT - 2] = SessionRecord(HISTORY_LIMIT - 1)
    /\ calc.history[HISTORY_LIMIT - 1] # calc.history[HISTORY_LIMIT]
    /\ calc.state = RESULT

\* getHistory has just been called with the number n as its limit.
GetHistoryCalled(n) ==
    /\ lastOp'.name = "getHistory"
    /\ lastOp'.arg = ToString(n)

\* The list returned holds the k most recent records, most recent first.
MostRecentFirst(list, k) ==
    /\ Len(list) = k
    /\ \A i \in 1 .. k : list[i] = calc.history[Len(calc.history) + 1 - i]

\* C18 (as claimed): for every integer limit >= 0, 0 and limits above the
\* length of history included, getHistory(limit) returns exactly the
\* min(limit, Len(history)) most recent records, most recent first, and
\* does not modify history.
C18_GetHistoryMostRecent ==
    [][ \A n \in {0, 1, 2, 10} :
          GetHistoryCalled(n) =>
             /\ ~ret'.threw
             /\ MostRecentFirst(ret'.list,
                                IF n < Len(calc.history)
                                THEN n ELSE Len(calc.history))
             /\ calc'.history = calc.history ]_vars

\* The call made in this step fails: a key that is neither digit nor
\* operator, a digit that does not fit, or a pending operation without a
\* result, run by calculate() or by the operator that follows it.
CallFails ==
    \/ lastOp'.name = "inputDigit" /\ lastOp'.arg \notin BinaryDigits
    \/ /\ lastOp'.name = "inputOperator"
       /\ lastOp'.arg \notin Operators
       /\ calc.state # ERROR
    \/ DigitOverflows
    \/ /\ calc.state # ERROR
       /\ calc.operator # "null"
       /\ calc.previousValue # NULL
       /\ \/ lastOp'.name = "calculate"
          \/ /\ lastOp'.name = "inputOperator"
             /\ lastOp'.arg \in Operators
             /\ ~calc.isNewInput
       /\ ArithmeticFailure(calc.operator, Value(calc.previousValue),
                            Value(calc.currentValue))

\* Every failure of a call that returns a snapshot ends in ERROR with a
\* message, and every such call returns the snapshot of the calculator as
\* the call has left it.
FailuresBecomeErrors ==
    /\ CallFails => calc'.state = ERROR /\ calc'.errorMessage # "null"
    /\ lastOp'.name \in {"inputDigit", "inputOperator", "calculate",
                         "backspace", "clear", "getState"}
          => ReturnsStateOf(calc', ret')

\* C20 (as claimed): no entry point (inputDigit, inputOperator, calculate,
\* backspace, clear, getState, getHistory) lets a failure reach its caller,
\* whatever the argument and the state: every failure becomes ERROR with a
\* message, the call returns a snapshot, and getHistory does not throw.
C20_NoFailurePropagates ==
    [][ /\ FailuresBecomeErrors
        /\ lastOp'.name = "getHistory" => ~ret'.threw ]_vars

\* The error kinds a caller is to branch on.
ErrorKinds == {INVALID_INPUT, DIVISION_BY_ZERO, NEGATIVE_RESULT, OVERFLOW}

\* The kind of error a snapshot reports: the value of its errorType field,
\* "none" when the snapshot has no such field.
KindOf(snapshot) ==
    IF "errorType" \in DOMAIN snapshot THEN snapshot.errorType ELSE "none"

\* C21 (as claimed): whenever a call fails, the snapshot the caller
\* receives carries one of the error kinds INVALID_INPUT, DIVISION_BY_ZERO,
\* NEGATIVE_RESULT, OVERFLOW together with the message; after 10 - 11 the
\* kind is NEGATIVE_RESULT.
C21_ErrorCarriesKind ==
    [][ CallFails =>
          /\ ret'.errorMessage # "null"
          /\ KindOf(ret') \in ErrorKinds
          /\ ret'.errorMessage = MSG_NEGATIVE
                => KindOf(ret') = NEGATIVE_RESULT ]_vars

LibraryCalled(name) == steps = 1 /\ lastOp.name = name

\* The largest value of an unsigned integer of INT_BITS bits.
UINT_MAX == 2^INT_BITS - 1

\* s is a string binaryToDecimal accepts and n is what it returns for it.
Decodes(s, n) ==
    LET decoded == binaryToDecimal(s)
    IN ~decoded.threw /\ decoded.value = n

\* C23: for every integer n in 0 .. 2^INT_BITS - 1,
\* binaryToDecimal(decimalToBinary(n)) is n.
C23_EncodeDecode ==
    (LibraryCalled("decimalToBinary") /\ lastOp.arg[1] \in 0 .. UINT_MAX) =>
        /\ ~ret.threw
        /\ Decodes(ret.value, lastOp.arg[1])
        /\ IsBinaryOf(ret.value, lastOp.arg[1])

\* decimalToBinary(5) has returned "101".
C23_Witness ==
    /\ LibraryCalled("decimalToBinary")
    /\ lastOp.arg = <<5>>
    /\ ret = returns(<<"1", "0", "1">>)

\* The string s without the blanks around it.
Trimmed(s) ==
    LET inked == {i \in 1 .. Len(s) : s[i] # " "}
        first == CHOOSE i \in inked : \A j \in inked : i <= j
        last == CHOOSE i \in inked : \A j \in inked : j <= i
    IN IF inked = {} THEN << >> ELSE SubSeq(s, first, last)

\* The digits of a string matching ^(0[bB])?[01]+$ : what follows the
\* optional prefix.
AfterPrefix(t) ==
    IF Len(t) >= 3 /\ t[1] = "0" /\ t[2] \in {"b", "B"}
    THEN SubSeq(t, 3, Len(t))
    ELSE t

\* t matches ^(0[bB])?[01]+$ .
MatchesBinaryFormat(t) ==
    /\ Len(AfterPrefix(t)) >= 1
    /\ \A i \in 1 .. Len(AfterPrefix(t)) : AfterPrefix(t)[i] \in BinaryDigits

\* C24 (as claimed): binaryToDecimal accepts a string exactly when the
\* string, trimmed, matches ^(0[bB])?[01]+$ , and what it returns for a
\* prefixed string is what it returns for the digits alone; every other
\* string, the empty one included, fails with the invalid-binary error.
C24_DecodeAccepts ==
    LibraryCalled("binaryToDecimal") =>
        IF MatchesBinaryFormat(Trimmed(lastOp.arg[1]))
        THEN /\ ~ret.threw
             /\ Decodes(AfterPrefix(Trimmed(lastOp.arg[1])), ret.value)
        ELSE ret = throws(LIB_INVALID_BINARY)

\* C25 (as claimed): every string binaryToDecimal accepts stands for an
\* unsigned integer of INT_BITS bits: the value returned is never above
\* 2^INT_BITS - 1.
C25_DecodeInRange ==
    (LibraryCalled("binaryToDecimal") /\ ~ret.threw) =>
        ret.value \in 0 .. UINT_MAX

\* The call made has two operands that both decode to unsigned integers of
\* INT_BITS bits.
OperandsInRange ==
    /\ Decodes(lastOp.arg[1], Value(lastOp.arg[1]))
    /\ Decodes(lastOp.arg[2], Value(lastOp.arg[2]))
    /\ Value(lastOp.arg[1]) <= UINT_MAX
    /\ Value(lastOp.arg[2]) <= UINT_MAX

\* The call made has returned a string that decodes to n.
ReturnsBinaryOf(n) == ~ret.threw /\ Decodes(ret.value, n)

\* C26: for valid binary strings a and b with values in 0 .. 2^INT_BITS - 1
\* whose sum, difference or product is in that range too, the result of
\* addition, subtraction and multiplication decodes to the sum, the
\* difference and the product of the values of a and b.
C26_ArithmeticInRange ==
    \A name \in {"addition", "subtraction", "multiplication"} :
        (LibraryCalled(name) /\ OperandsInRange) =>
            LET a == Value(lastOp.arg[1])
                b == Value(lastOp.arg[2])
                expected == CASE name = "addition" -> a + b
                              [] name = "subtraction" -> a - b
                              [] name = "multiplication" -> a * b
            IN expected \in 0 .. UINT_MAX => ReturnsBinaryOf(expected)

\* subtraction("110", "1") has returned "101".
C26_Witness ==
    /\ LibraryCalled("subtraction")
    /\ lastOp.arg = << <<"1", "1", "0">>, <<"1">> >>
    /\ ret = returns(<<"1", "0", "1">>)

\* C27 (as claimed): for all valid binary strings a and b, division(a, b)
\* decodes to the floor of decode(a) / decode(b) when decode(b) is not 0,
\* and throws the division-by-zero error, returning nothing, when it is.
C27_DivisionFloors ==
    LibraryCalled("division") =>
        LET a == binaryToDecimal(lastOp.arg[1]).value
            b == binaryToDecimal(lastOp.arg[2]).value
        IN IF b # 0
           THEN ReturnsBinaryOf(a \div b)
           ELSE ret = throws(LIB_DIVISION_BY_ZERO)

\* C28: decimalToBinary of a negative integer n above -2^INT_BITS returns
\* the binary string of n + 2^INT_BITS; so subtraction(a, b) with operands
\* in 0 .. 2^INT_BITS - 1 and decode(a) < decode(b) does not fail but
\* returns the binary string of 2^INT_BITS + decode(a) - decode(b).
C28_NegativeWraps ==
    /\ (LibraryCalled("decimalToBinary") /\ lastOp.arg[1] \in (0 - UINT_MAX) .. -1)
          => /\ ~ret.threw
             /\ IsBinaryOf(ret.value, lastOp.arg[1] + 2^INT_BITS)
    /\ (LibraryCalled("subtraction") /\ OperandsInRange
           /\ Value(lastOp.arg[1]) < Value(lastOp.arg[2]))
          => /\ ~ret.threw
             /\ IsBinaryOf(ret.value,
                           2^INT_BITS + Value(lastOp.arg[1])
                              - Value(lastOp.arg[2]))

\* subtraction("1", "10") has returned a string of INT_BITS ones, the
\* unsigned reading of -1.
C28_Witness ==
    /\ LibraryCalled("subtraction")
    /\ lastOp.arg = << <<"1">>, <<"1", "0">> >>
    /\ ret = returns([i \in 1 .. INT_BITS |-> "1"])

\* C29: for a valid binary string a and a shift k >= 0 with
\* decode(a) * 2^k <= 2^INT_BITS - 1, shifting a left by k and the result
\* right by k decodes to decode(a) again.
C29_ShiftRoundTrip ==
    (/\ LibraryCalled("leftShift")
     /\ lastOp.arg[2] >= 0
     /\ Value(lastOp.arg[1]) * 2^(lastOp.arg[2]) <= UINT_MAX)
       => /\ ~ret.threw
          /\ LET back == rightShift(ret.value, lastOp.arg[2])
             IN  /\ ~back.threw
                 /\ Decodes(back.value, Value(lastOp.arg[1]))

\* C30: for a valid binary string a in range and a shift k >= 0,
\* rightShift(a, k) returns the binary string of floor(decode(a) / 2^k),
\* which is "0" once k reaches the bit length of a.
C30_RightShiftFloors ==
    (/\ LibraryCalled("rightShift")
     /\ lastOp.arg[2] >= 0
     /\ Value(lastOp.arg[1]) <= UINT_MAX)
       => ReturnsBinaryOf(Value(lastOp.arg[1]) \div 2^(lastOp.arg[2]))

\* The positions of the binary-string operands of a library function.
BinaryOperands(name) ==
    IF name \in {"addition", "subtraction", "multiplication", "division",
                 "bitwiseAND", "bitwiseOR", "bitwiseXOR"}
    THEN {1, 2}
    ELSE {1}

\* s is not a binary string: trimmed, it does not match ^(0[bB])?[01]+$ .
Malformed(s) == ~MatchesBinaryFormat(Trimmed(s))

\* C31 (as claimed): a call of a library function with a malformed
\* binary-string operand fails with the invalid-binary error, whichever
\* function is called, whichever operand is malformed and whatever the
\* other arguments are (a zero divisor, an invalid shift amount and an
\* invalid exponent included).
C31_MalformedOperandFails ==
    \A name \in {"binaryToDecimal", "addition", "subtraction",
                 "multiplication", "division", "bitwiseAND", "bitwiseOR",
                 "bitwiseXOR", "bitwiseNOT", "leftShift", "rightShift",
                 "power", "squareRoot"} :
        (/\ LibraryCalled(name)
         /\ \E position \in BinaryOperands(name) :
               Malformed(lastOp.arg[position]))
           => ret = throws(LIB_INVALID_BINARY)

\* Bit i of the unsigned integer n, bit 0 being the lowest.
Bit(n, i) == (n \div 2^i) % 2

\* The bit the operation of a bitwise function makes of the bits x and y.
BitOf(name, x, y) ==
    CASE name = "bitwiseAND" -> IF x = 1 /\ y = 1 THEN 1 ELSE 0
      [] name = "bitwiseOR"  -> IF x = 1 \/ y = 1 THEN 1 ELSE 0
      [] name = "bitwiseXOR" -> IF x # y THEN 1 ELSE 0

\* C32: for valid binary strings a and b with values in
\* 0 .. 2^INT_BITS - 1, bitwiseAND, bitwiseOR and bitwiseXOR return the
\* binary string of the unsigned integer whose bits are the AND, OR, XOR of
\* the bits of a and b; bitwiseNOT(a) returns the binary string of
\* 2^INT_BITS - 1 - decode(a), and bitwiseNOT of that decodes to decode(a).
C32_BitwiseUnsigned ==
    /\ \A name \in {"bitwiseAND", "bitwiseOR", "bitwiseXOR"} :
          (LibraryCalled(name) /\ OperandsInRange) =>
              /\ ~ret.threw
              /\ IsBinaryOf(ret.value, Value(ret.value))
              /\ Value(ret.value) <= UINT_MAX
              /\ \A i \in 0 .. INT_BITS - 1 :
                    Bit(Value(ret.value), i)
                       = BitOf(name, Bit(Value(lastOp.arg[1]), i),
                                     Bit(Value(lastOp.arg[2]), i))
    /\ (/\ LibraryCalled("bitwiseNOT")
        /\ Decodes(lastOp.arg[1], Value(lastOp.arg[1]))
        /\ Value(lastOp.arg[1]) <= UINT_MAX)
          => /\ ~ret.threw
             /\ IsBinaryOf(ret.value, UINT_MAX - Value(lastOp.arg[1]))
             /\ LET back == bitwiseNOT(ret.value)
                IN  /\ ~back.threw
                    /\ Decodes(back.value, Value(lastOp.arg[1]))

\* bitwiseAND of two strings of INT_BITS digits with the highest bit set
\* has returned a string with the highest bit set.
C32_Witness ==
    /\ LibraryCalled("bitwiseAND")
    /\ lastOp.arg[1] = [i \in 1 .. INT_BITS |-> "1"]
    /\ lastOp.arg[2] = [i \in 1 .. INT_BITS |-> IF i = 1 THEN "1" ELSE "0"]
    /\ ret = returns(lastOp.arg[2])

\* C33: for every valid binary string with value n in
\* 0 .. 2^INT_BITS - 1, squareRoot returns a string whose value r satisfies
\* r^2 <= n < (r + 1)^2; and for no string binaryToDecimal accepts does
\* squareRoot fail with the negative-operand error.
C33_SquareRootFloors ==
    /\ (/\ LibraryCalled("squareRoot")
        /\ Decodes(lastOp.arg[1], Value(lastOp.arg[1]))
        /\ Value(lastOp.arg[1]) <= UINT_MAX)
          => /\ ~ret.threw
             /\ Decodes(ret.value, Value(ret.value))
             /\ Value(ret.value) * Value(ret.value) <= Value(lastOp.arg[1])
             /\ Value(lastOp.arg[1])
                   < (Value(ret.value) + 1) * (Value(ret.value) + 1)
    /\ (LibraryCalled("squareRoot") /\ ~binaryToDecimal(lastOp.arg[1]).threw)
          => ret # throws(LIB_NEGATIVE_ROOT)

\* squareRoot of the largest value of the word, which is not a square, has
\* returned a root below the exact one.
C33_Witness ==
    /\ LibraryCalled("squareRoot")
    /\ lastOp.arg[1] = [i \in 1 .. INT_BITS |-> "1"]
    /\ ~ret.threw
    /\ Value(ret.value) * Value(ret.value) < UINT_MAX

\* s is a binary string of at most MAX_BITS digits without a leading zero,
\* unless it is exactly "0".
WellFormed(s) == Len(s) <= MAX_BITS /\ IsBinaryOf(s, Value(s))

\* C34: in every reachable state currentValue, and previousValue when it
\* is set, is a non-empty string of binary digits of at most MAX_BITS
\* characters with no leading zero unless it is exactly "0", so its value
\* is in 0 .. MAX_VALUE.
C34_OperandsWellFormed ==
    /\ WellFormed(calc.currentValue)
    /\ Value(calc.currentValue) \in 0 .. MAX_VALUE
    /\ calc.previousValue # NULL =>
          /\ WellFormed(calc.previousValue)
          /\ Value(calc.previousValue) \in 0 .. MAX_VALUE

\* A digit has been rejected on a full second operand, with a first operand
\* of several digits pending.
C34_Witness ==
    /\ lastOp.name = "inputDigit"
    /\ calc.state = ERROR
    /\ Len(calc.currentValue) = MAX_BITS
    /\ calc.previousValue # NULL
    /\ Len(calc.previousValue) > 1

\* C35: in every reachable state an operator is set exactly when
\* previousValue is set; in OPERATOR isNewInput is true and an operator is
\* set; in RESULT isNewInput is true and no operator is set; and when
\* isNewInput is false the state is INPUT or ERROR.
C35_PhaseInvariants ==
    /\ calc.operator # "null" <=> calc.previousValue # NULL
    /\ calc.state = OPERATOR => calc.isNewInput /\ calc.operator # "null"
    /\ calc.state = RESULT => calc.isNewInput /\ calc.operator = "null"
    /\ ~calc.isNewInput => calc.state \in {INPUT, ERROR}

\* An operator has been typed after the second operand of a pending
\* operation: the calculator is in OPERATOR with a record in history.
C35_Witness ==
    /\ lastOp.name = "inputOperator"
    /\ lastOp.from = INPUT
    /\ calc.state = OPERATOR
    /\ calc.isNewInput
    /\ calc.operator \in Operators
    /\ calc.previousValue # NULL
    /\ Len(calc.history) >= 1

\* calculate() is called directly after inputOperator, before a digit of a
\* second operand is typed.
CalculateAfterOperator ==
    /\ lastOp'.name = "calculate"
    /\ lastOp.name = "inputOperator"
    /\ calc.state = OPERATOR
    /\ calc.isNewInput

\* calculate() has computed a op a, appended "a op a = result" and moved to
\* RESULT.
SelfOperationDone ==
    /\ calc'.state = RESULT
    /\ IsBinaryOf(calc'.currentValue,
                  Expected(calc.operator, Value(calc.previousValue),
                           Value(calc.previousValue)))
    /\ Appended(calc.history,
                calc.previousValue \o <<" ", calc.operator, " ">>
                   \o calc.previousValue \o <<" ", "=", " ">>
                   \o calc'.currentValue,
                calc'.history)

\* C36 (as claimed): calculate() called directly after inputOperator(op)
\* is not a no-op: it computes a op a with the first operand a in both
\* places, appends "a op a = result" and moves to RESULT, or to ERROR with
\* the division-by-zero message when op is "/" and a is 0.
C36_SelfOperation ==
    [][ CalculateAfterOperator =>
          IF calc.operator = "/" /\ Value(calc.previousValue) = 0
          THEN calc'.state = ERROR /\ calc'.errorMessage = MSG_DIV_ZERO
          ELSE SelfOperationDone ]_vars

\* C36 (amended): as above, and when op is "+" or "*" and a op a exceeds
\* MAX_VALUE it moves to ERROR with the overflow message; in ERROR nothing
\* is appended to history.
C36_SelfOperationOrFailure ==
    [][ CalculateAfterOperator =>
          LET a == Value(calc.previousValue)
          IN  /\ calc.currentValue = calc.previousValue
              /\ IF calc.operator = "/" /\ a = 0
                 THEN /\ calc'.state = ERROR
                      /\ calc'.errorMessage = MSG_DIV_ZERO
                      /\ calc'.history = calc.history
                 ELSE IF calc.operator \in {"+", "*"}
                         /\ Expected(calc.operator, a, a) > MAX_VALUE
                 THEN /\ calc'.state = ERROR
                      /\ calc'.errorMessage = MSG_RESULT_OVERFLOW
                      /\ calc'.history = calc.history
                 ELSE SelfOperationDone ]_vars

\* 10 * 10 has been computed from the first operand alone: "10", "*", "=".
C36_Witness ==
    /\ lastOp.name = "calculate"
    /\ lastOp.from = OPERATOR
    /\ calc.state = RESULT
    /\ calc.currentValue = <<"1", "0", "0">>
    /\ calc.history =
          << <<"1", "0", " ", "*", " ", "1", "0", " ", "=", " ",
               "1", "0", "0">> >>

\* inputOperator is called with a valid operator while an operator is
\* pending and no second operand has been typed, or directly after a
\* completed calculation.
OperatorWithoutOperand ==
    /\ lastOp'.name = "inputOperator"
    /\ lastOp'.arg \in Operators
    /\ \/ calc.operator # "null" /\ calc.isNewInput
       \/ lastOp.name = "calculate" /\ calc.state = RESULT

\* The operator typed has replaced the pending one without a calculation.
OperatorReplaced ==
    /\ calc'.operator = lastOp'.arg
    /\ calc'.previousValue = calc.currentValue
    /\ calc'.currentValue = calc.currentValue
    /\ calc'.history = calc.history
    /\ calc'.state = OPERATOR

\* C37 (as claimed): inputOperator(op2) called while an operator is pending
\* and isNewInput is true, or directly after a completed calculation,
\* performs no calculation: operator becomes op2, previousValue becomes
\* currentValue, currentValue and history are unchanged and the phase is
\* OPERATOR.
C37_OperatorReplacedAnyPhase ==
    [][ OperatorWithoutOperand => OperatorReplaced ]_vars

\* C37 (amended): the same for a call made in a phase other than ERROR.
C37_OperatorReplacedOutsideError ==
    [][ (OperatorWithoutOperand /\ calc.state # ERROR)
           => OperatorReplaced ]_vars

\* "-" has replaced a pending "+" after a first calculation: the first
\* operand is still shown and history has the one record.
C37_Witness ==
    /\ lastOp.name = "inputOperator"
    /\ lastOp.arg = "-"
    /\ lastOp.from = OPERATOR
    /\ calc.state = OPERATOR
    /\ calc.operator = "-"
    /\ calc.previousValue = calc.currentValue
    /\ Len(calc.history) = 1

\* C38 (as claimed): driven by the same events, after every event the
\* UIController's currentInput, hasError, operator, previousValue and
\* history equal the CalculatorEngine's currentValue, hasError, operator,
\* previousValue and history.
C38_SameCalculator ==
    /\ ui.currentInput = calc.currentValue
    /\ ui.hasError = getState(calc).hasError
    /\ ui.operator = calc.operator
    /\ ui.previousValue = calc.previousValue
    /\ ui.history = calc.history

====
